---- MODULE Spec2Model ----
(***************************************************************************)
(* Plan/state reconciliation of the study-plan checklist scripts:          *)
(*   merge_plan                               (main_final.py, main_23.py)  *)
(*   redistribute_to_25_27_without_completed  (main_final.py)              *)
(*   redistribute_to_days                     (main_23.py, exam.py)        *)
(*                                                                         *)
(* A Python dict is an insertion-ordered sequence of [key, value] items.   *)
(* A plan is the dict  day -> {"count", "lectures"};  as a value it is a   *)
(* sequence of records [day, count, lectures].  merge_plan runs on a store *)
(* of objects (dicts, day entries, lists) addressed by reference, so that  *)
(* copying and in-place mutation are distinguishable.                      *)
(***************************************************************************)
EXTENDS Integers, Sequences, FiniteSets, TLC

VARIABLES base_plan,      \* the plan handed to the function under study (value at call time)
          state,          \* the state document: day -> lecture -> record, plus "overrides"
          store,          \* object store of merge_plan: [dicts, entries, lists]
          merged_ref,     \* reference of the dict returned by merge_plan (0: not yet called)
          after_add,      \* merged, as a value, after pass 1 (additions)
          after_remove,   \* merged, as a value, after pass 2 (removals)
          redist,         \* plan returned by redistribute_to_25_27_without_completed
          days_plan,      \* plan returned by redistribute_to_days
          start_day,      \* arguments of redistribute_to_days
          end_day,
          total_lectures,
          pc              \* "call" before the function has run, "done" after

VARIABLES start_time,     \* arguments of calculate_interval_duration: [hour, minute]
          end_time,
          duration,       \* its result, in minutes
          raised          \* exception the operation under study ended with ("" for none)

VARIABLES stored,         \* a lecture's record as load_state returned it
          lec_state,      \* the same record after the render of the lecture
          lecture_total_min   \* the lecture's total time, in minutes

VARIABLES current_plan,   \* the plan the day view shows
          selected_day,   \* the day picked in the sidebar
          search,         \* the text of the lecture filter
          summary,        \* counters of the view: lectures, studied, examed, minutes, progress
          summary_data    \* rows of the day summary table

VARIABLES text,           \* the lines of plan.txt, each by its characters
          parsed          \* the plan parse_plan returns for them

VARIABLES file,           \* content of the state file
          session         \* per session: the document in memory and where the run is

VARIABLES routine_file,   \* content of FinalRoutine/routine_state.json
          data,           \* what load_routine returned: the dicts it built and the one returned
          clock,          \* time_mod.time(), in seconds
          run,            \* the script run of the routine tracker: where it is, its document
          rendered_at,    \* history: per activity, the clock when its timer was last rendered
          habit,          \* a habit's completions log, today's date and the checkbox
          streaks         \* the streaks shown for the habit: current and longest

timeVars == <<start_time, end_time, duration>>

lectureVars == <<stored, lec_state, lecture_total_min>>

viewVars == <<current_plan, selected_day, search, summary, summary_data>>

parseVars == <<text, parsed>>

sessionVars == <<file, session>>

trackerVars == <<routine_file, data, clock, run, rendered_at, habit, streaks>>

\* the variables of the components modelled after the planning functions
added == <<timeVars, lectureVars, viewVars, parseVars, sessionVars, trackerVars>>

vars == <<base_plan, state, store, merged_ref, after_add, after_remove,
          redist, days_plan, start_day, end_day, total_lectures, pc, added, raised>>

\* the values the variables of a component hold while another one is studied
IdleTime ==
    /\ start_time = [hour |-> 0, minute |-> 0]
    /\ end_time = [hour |-> 0, minute |-> 0]
    /\ duration = 0

IdleLecture ==
    /\ stored = <<>>
    /\ lec_state = <<>>
    /\ lecture_total_min = 0

IdleView ==
    /\ current_plan = <<>>
    /\ selected_day = ""
    /\ search = ""
    /\ summary = <<>>
    /\ summary_data = <<>>

IdleParse ==
    /\ text = <<>>
    /\ parsed = <<>>

IdleSession ==
    /\ file = <<>>
    /\ session = <<>>

IdleTracker ==
    /\ routine_file = <<>>
    /\ data = <<>>
    /\ clock = 0
    /\ run = <<>>
    /\ rendered_at = <<>>
    /\ habit = <<>>
    /\ streaks = <<>>

IdleAdded == IdleTime /\ IdleLecture /\ IdleView /\ IdleParse /\ IdleSession /\ IdleTracker

----------------------------------------------------------------------------
(* Bounds of the explored inputs                                           *)

MaxLec == 2        \* lectures of a merge_plan input, all days together
MaxAdd == 2        \* entries of overrides.add
MaxRemove == 2     \* entries of overrides.remove
MaxMove == 1       \* entries of overrides.move
MaxEdits == 3      \* entries of the three logs together

Labels == {"A", "B"}
MergeDays == <<"25 January", "26 January">>

----------------------------------------------------------------------------
(* Sequences and ordered dicts                                             *)

Range(s) == {s[i] : i \in 1..Len(s)}

InSeq(x, s) == \E i \in 1..Len(s) : s[i] = x

Occurrences(x, s) == Cardinality({i \in 1..Len(s) : s[i] = x})

BoundedSeqs(S, n) == UNION {[1..k -> S] : k \in 0..n}

\* list.remove(x): drops the first occurrence of x
RemoveFirst(s, x) ==
    LET i == CHOOSE j \in 1..Len(s) : s[j] = x /\ \A k \in 1..(j - 1) : s[k] # x
    IN  SubSeq(s, 1, i - 1) \o SubSeq(s, i + 1, Len(s))

HasKey(d, k) == \E i \in 1..Len(d) : d[i].key = k

KeyIndex(d, k) == CHOOSE i \in 1..Len(d) : d[i].key = k

Lookup(d, k) == d[KeyIndex(d, k)].value

Keys(d) == [i \in 1..Len(d) |-> d[i].key]

\* d.setdefault(k, []).append(x)
AppendUnder(d, k, x) ==
    IF HasKey(d, k)
    THEN [d EXCEPT ![KeyIndex(d, k)].value = Append(@, x)]
    ELSE Append(d, [key |-> k, value |-> <<x>>])

\* d[k] = v
Assign(d, k, v) ==
    IF HasKey(d, k)
    THEN [d EXCEPT ![KeyIndex(d, k)].value = v]
    ELSE Append(d, [key |-> k, value |-> v])

EmptyDoc == [k \in {} |-> {}]

----------------------------------------------------------------------------
(* The state document                                                      *)

\* state.get("overrides", {"add": {}, "remove": {}, "move": {}}): a read;
\* "state" is the document after the call, "value" what the call returns
GetOverridesInserting(st) ==
    LET dflt == [add |-> <<>>, remove |-> <<>>, move |-> <<>>]
    IN  IF "overrides" \in DOMAIN st
        THEN [state |-> st, value |-> st["overrides"]]
        ELSE [state |-> [k \in DOMAIN st \cup {"overrides"} |->
                            IF k = "overrides" THEN dflt ELSE st[k]],
              value |-> dflt]

GetOverrides(st) ==
    [state |-> st,
     value |-> IF "overrides" \in DOMAIN st
               THEN st["overrides"]
               ELSE [add |-> <<>>, remove |-> <<>>, move |-> <<>>]]

\* overrides.get(log, {})
GetLog(overrides, log) ==
    IF log \in DOMAIN overrides THEN overrides[log] ELSE <<>>

----------------------------------------------------------------------------
(* Object store: s.dicts[r] is a plan dict (items [key |-> day, value |->  *)
(* entry reference]), s.entries[r] a day entry [count, lectures |-> list   *)
(* reference], s.lists[r] a list of lecture labels.                        *)

EmptyStore == [dicts |-> <<>>, entries |-> <<>>, lists |-> <<>>]

EntryRef(s, dref, day) == Lookup(s.dicts[dref], day)

ListRef(s, dref, day) == s.entries[EntryRef(s, dref, day)].lectures

DerefPlan(s, dref) ==
    [i \in 1..Len(s.dicts[dref]) |->
        LET e == s.entries[s.dicts[dref][i].value]
        IN  [day |-> s.dicts[dref][i].key,
             count |-> e.count,
             lectures |-> s.lists[e.lectures]]]

\* a plan value placed in the store as the objects of one dict
RECURSIVE AllocEntries(_, _, _)
AllocEntries(s, plan, items) ==
    IF plan = <<>>
    THEN [s EXCEPT !.dicts = Append(@, items)]
    ELSE LET s1 == [s EXCEPT !.lists = Append(@, Head(plan).lectures)]
             s2 == [s1 EXCEPT !.entries =
                        Append(@, [count |-> Head(plan).count, lectures |-> Len(s1.lists)])]
         IN  AllocEntries(s2, Tail(plan),
                          Append(items, [key |-> Head(plan).day, value |-> Len(s2.entries)]))

AllocPlan(plan) == AllocEntries(EmptyStore, plan, <<>>)

BaseRef == 1

----------------------------------------------------------------------------
(* merge_plan                                                              *)

\* the dict comprehension with the slice copy left out: "lectures": info["lectures"]
RECURSIVE CopyEntriesAliased(_, _, _)
CopyEntriesAliased(s, items, acc) ==
    IF items = <<>>
    THEN [s EXCEPT !.dicts = Append(@, acc)]
    ELSE LET e  == s.entries[Head(items).value]
             s2 == [s EXCEPT !.entries =
                        Append(@, [count |-> e.count, lectures |-> e.lectures])]
         IN  CopyEntriesAliased(s2, Tail(items),
                         Append(acc, [key |-> Head(items).key, value |-> Len(s2.entries)]))

\* merged = {day: {"count": info["count"], "lectures": info["lectures"][:]} ...}
RECURSIVE CopyEntries(_, _, _)
CopyEntries(s, items, acc) ==
    IF items = <<>>
    THEN [s EXCEPT !.dicts = Append(@, acc)]
    ELSE LET e  == s.entries[Head(items).value]
             s1 == [s EXCEPT !.lists = Append(@, s.lists[e.lectures])]
             s2 == [s1 EXCEPT !.entries =
                        Append(@, [count |-> e.count, lectures |-> Len(s1.lists)])]
         IN  CopyEntries(s2, Tail(items),
                         Append(acc, [key |-> Head(items).key, value |-> Len(s2.entries)]))

\* merged.setdefault(day, {"count": 0, "lectures": []})
SetDefaultDay(s, dref, day) ==
    IF HasKey(s.dicts[dref], day)
    THEN s
    ELSE LET s1 == [s EXCEPT !.lists = Append(@, <<>>)]
             s2 == [s1 EXCEPT !.entries =
                        Append(@, [count |-> 0, lectures |-> Len(s1.lists)])]
         IN  [s2 EXCEPT !.dicts[dref] =
                        Append(@, [key |-> day, value |-> Len(s2.entries)])]

\* the inner loop of pass 1 without the membership test
RECURSIVE AddLecturesUnchecked(_, _, _)
AddLecturesUnchecked(s, lref, lectures) ==
    IF lectures = <<>>
    THEN s
    ELSE AddLecturesUnchecked([s EXCEPT !.lists[lref] = Append(@, Head(lectures))],
                              lref, Tail(lectures))

\* for lec in lectures: if lec not in merged[day]["lectures"]: append
RECURSIVE AddLectures(_, _, _)
AddLectures(s, lref, lectures) ==
    IF lectures = <<>>
    THEN s
    ELSE LET s1 == IF InSeq(Head(lectures), s.lists[lref])
                   THEN s
                   ELSE [s EXCEPT !.lists[lref] = Append(@, Head(lectures))]
         IN  AddLectures(s1, lref, Tail(lectures))

\* pass 1
RECURSIVE Additions(_, _, _)
Additions(s, dref, add) ==
    IF add = <<>>
    THEN s
    ELSE LET s1 == SetDefaultDay(s, dref, Head(add).key)
             s2 == AddLectures(s1, ListRef(s1, dref, Head(add).key), Head(add).value)
         IN  Additions(s2, dref, Tail(add))

\* a removal that drops one occurrence per listed label (list.remove)
RECURSIVE FilterOutOnce(_, _)
FilterOutOnce(lecs, lectures) ==
    IF lectures = <<>>
    THEN lecs
    ELSE FilterOutOnce(IF InSeq(Head(lectures), lecs)
                       THEN RemoveFirst(lecs, Head(lectures))
                       ELSE lecs,
                       Tail(lectures))

\* [lec for lec in merged[day]["lectures"] if lec not in lectures]
RECURSIVE FilterOut(_, _)
FilterOut(lecs, lectures) ==
    IF lecs = <<>>
    THEN <<>>
    ELSE IF InSeq(Head(lecs), lectures)
         THEN FilterOut(Tail(lecs), lectures)
         ELSE <<Head(lecs)>> \o FilterOut(Tail(lecs), lectures)

\* pass 2: the comprehension builds a new list and rebinds the entry to it
RECURSIVE Removals(_, _, _)
Removals(s, dref, remove) ==
    IF remove = <<>>
    THEN s
    ELSE LET day == Head(remove).key
         IN  IF HasKey(s.dicts[dref], day)
             THEN LET eref == EntryRef(s, dref, day)
                      s1 == [s EXCEPT !.lists =
                                Append(@, FilterOut(s.lists[s.entries[eref].lectures],
                                                    Head(remove).value))]
                      s2 == [s1 EXCEPT !.entries[eref].lectures = Len(s1.lists)]
                  IN  Removals(s2, dref, Tail(remove))
             ELSE Removals(s, dref, Tail(remove))

\* for day in list(merged): if lecture in ...: merged[day]["lectures"].remove(lecture)
RECURSIVE RemoveFromDays(_, _, _, _)
RemoveFromDays(s, dref, days, lecture) ==
    IF days = <<>>
    THEN s
    ELSE LET lref == ListRef(s, dref, Head(days))
             s1 == IF InSeq(lecture, s.lists[lref])
                   THEN [s EXCEPT !.lists[lref] = RemoveFirst(@, lecture)]
                   ELSE s
         IN  RemoveFromDays(s1, dref, Tail(days), lecture)

\* pass 3
RECURSIVE Moves(_, _, _)
Moves(s, dref, move) ==
    IF move = <<>>
    THEN s
    ELSE LET lecture == Head(move).key
             target  == Head(move).value
             s1 == RemoveFromDays(s, dref, Keys(s.dicts[dref]), lecture)
             s2 == SetDefaultDay(s1, dref, target)
             lref == ListRef(s2, dref, target)
             s3 == IF InSeq(lecture, s2.lists[lref])
                   THEN s2
                   ELSE [s2 EXCEPT !.lists[lref] = Append(@, lecture)]
         IN  Moves(s3, dref, Tail(move))

\* for day in merged: merged[day]["count"] = len(merged[day]["lectures"])
RECURSIVE UpdateCounts(_, _, _)
UpdateCounts(s, dref, i) ==
    IF i > Len(s.dicts[dref])
    THEN s
    ELSE LET eref == s.dicts[dref][i].value
         IN  UpdateCounts([s EXCEPT !.entries[eref].count = Len(s.lists[s.entries[eref].lectures])],
                          dref, i + 1)

\* the passes taken in the order removals, additions, moves
MergePlanRemoveFirst(s, base_ref, st) ==
    LET s0 == CopyEntries(s, s.dicts[base_ref], <<>>)
        m  == Len(s0.dicts)
        g  == GetOverrides(st)
        sR == Removals(s0, m, GetLog(g.value, "remove"))
        sA == Additions(sR, m, GetLog(g.value, "add"))
        sM == Moves(sA, m, GetLog(g.value, "move"))
    IN  [store |-> UpdateCounts(sM, m, 1), ref |-> m, state |-> g.state,
         after_add |-> DerefPlan(sA, m), after_remove |-> DerefPlan(sR, m)]

\* merge_plan(base_plan, state): the store and the state document after the
\* call, the reference of the returned dict, and merged after passes 1 and 2
MergePlan(s, base_ref, st) ==
    LET s0 == CopyEntries(s, s.dicts[base_ref], <<>>)
        m  == Len(s0.dicts)
        g  == GetOverrides(st)
        sA == Additions(s0, m, GetLog(g.value, "add"))
        sR == Removals(sA, m, GetLog(g.value, "remove"))
        sM == Moves(sR, m, GetLog(g.value, "move"))
    IN  [store |-> UpdateCounts(sM, m, 1), ref |-> m, state |-> g.state,
         after_add |-> DerefPlan(sA, m), after_remove |-> DerefPlan(sR, m)]

----------------------------------------------------------------------------
(* The override logs as the sidebar handlers write them                    *)

SetKey(f, k, v) == [x \in DOMAIN f \cup {k} |-> IF x = k THEN v ELSE f[x]]

OverridesOf(st) == IF "overrides" \in DOMAIN st THEN st["overrides"] ELSE EmptyDoc

\* state.setdefault("overrides", {}).setdefault("add", {}).setdefault(add_day, []).append(lec)
LogAdd(st, day, lec) ==
    SetKey(st, "overrides",
           SetKey(OverridesOf(st), "add", AppendUnder(GetLog(OverridesOf(st), "add"), day, lec)))

\* state.setdefault("overrides", {}).setdefault("remove", {}).setdefault(remove_day, []).append(to_remove)
LogRemove(st, day, lec) ==
    SetKey(st, "overrides",
           SetKey(OverridesOf(st), "remove", AppendUnder(GetLog(OverridesOf(st), "remove"), day, lec)))

\* state.setdefault("overrides", {}).setdefault("move", {})[lecture] = new_day
LogMove(st, lec, day) ==
    SetKey(st, "overrides",
           SetKey(OverridesOf(st), "move", Assign(GetLog(OverridesOf(st), "move"), lec, day)))

RECURSIVE LogAll(_, _, _, _)
LogAll(st, adds, removes, moves) ==
    IF adds # <<>>
    THEN LogAll(LogAdd(st, Head(adds)[1], Head(adds)[2]), Tail(adds), removes, moves)
    ELSE IF removes # <<>>
    THEN LogAll(LogRemove(st, Head(removes)[1], Head(removes)[2]), adds, Tail(removes), moves)
    ELSE IF moves # <<>>
    THEN LogAll(LogMove(st, Head(moves)[2], Head(moves)[1]), adds, removes, Tail(moves))
    ELSE st

----------------------------------------------------------------------------
(* merge_plan on every bounded plan and override set                       *)

LectureLists == BoundedSeqs(Labels, MaxLec)

\* the days of "present", in the order of "days", each with its list
RECURSIVE PlanFrom(_, _, _, _)
PlanFrom(days, present, lecs, i) ==
    IF i > Len(days)
    THEN <<>>
    ELSE (IF i \in present
          THEN <<[day |-> days[i], count |-> Len(lecs[i]), lectures |-> lecs[i]]>>
          ELSE <<>>) \o PlanFrom(days, present, lecs, i + 1)

\* the plans parse_plan can hand to merge_plan: each day present or absent,
\* a day's count the length of its list
MergeInputs ==
    {PlanFrom(MergeDays, P, f, 1) : P \in SUBSET (1..Len(MergeDays)),
                                    f \in {g \in [1..Len(MergeDays) -> LectureLists] :
                                              Len(g[1]) + Len(g[2]) <= MaxLec}}

Edits == Range(MergeDays) \X Labels

AtMost(a, b) == IF a < b THEN a ELSE b

\* the state documents the sidebar handlers can leave behind: up to MaxAdd
\* additions, MaxRemove removals and MaxMove moves, MaxEdits edits in all
OverrideSets ==
    UNION {UNION {{LogAll(EmptyDoc, adds, removes, moves) :
                        moves \in BoundedSeqs(Edits,
                            AtMost(MaxEdits - Len(adds) - Len(removes), MaxMove))} :
                    removes \in BoundedSeqs(Edits, AtMost(MaxEdits - Len(adds), MaxRemove))} :
            adds \in BoundedSeqs(Edits, AtMost(MaxEdits, MaxAdd))}

Init ==
    /\ base_plan \in MergeInputs
    /\ state \in OverrideSets
    /\ store = AllocPlan(base_plan)
    /\ merged_ref = 0
    /\ after_add = <<>>
    /\ after_remove = <<>>
    /\ redist = <<>>
    /\ days_plan = <<>>
    /\ start_day = 0
    /\ end_day = 0
    /\ total_lectures = 0
    /\ IdleAdded
    /\ raised = ""
    /\ pc = "call"

\* current_plan = merge_plan(current_plan, state)
Merge ==
    /\ pc = "call"
    /\ \E r \in {MergePlan(store, BaseRef, state)} :
           /\ store' = r.store
           /\ merged_ref' = r.ref
           /\ state' = r.state
           /\ after_add' = r.after_add
           /\ after_remove' = r.after_remove
    /\ pc' = "done"
    /\ UNCHANGED <<base_plan, redist, days_plan, start_day, end_day, total_lectures,
                   added, raised>>

Next == Merge

Spec == Init /\ [][Next]_vars

\* the plan merge_plan returned
merged == IF merged_ref = 0 THEN <<>> ELSE DerefPlan(store, merged_ref)

----------------------------------------------------------------------------
(* Properties of merge_plan                                                *)

HasDay(p, d) == \E i \in 1..Len(p) : p[i].day = d

DaysOf(p) == [i \in 1..Len(p) |-> p[i].day]

\* the lecture list of day d in plan p; empty when p has no day d
LecturesOn(p, d) ==
    IF HasDay(p, d) THEN p[CHOOSE i \in 1..Len(p) : p[i].day = d].lectures ELSE <<>>

\* the labels logged under key k of an override log; empty when there is no such key
LoggedUnder(log, k) == IF HasKey(log, k) THEN Lookup(log, k) ELSE <<>>

AddLog == GetLog(OverridesOf(state), "add")
RemoveLog == GetLog(OverridesOf(state), "remove")
MoveLog == GetLog(OverridesOf(state), "move")

MovedTo(l, d) == HasKey(MoveLog, l) /\ Lookup(MoveLog, l) = d

\* C1 (as amended): merge_plan applies additions, then removals, then moves.
\* A label without a move entry is in day d of the result exactly when it is
\* in day d of the input or in add[d], and is not in remove[d]; a label in
\* both add[d] and remove[d] is absent from day d unless a move entry brings
\* it back to d; a label in remove[d] with a move entry to d is present in d.
C1_AddRemoveMoveOrder ==
    pc = "done" =>
        \A d \in Range(MergeDays), l \in Labels :
            /\ ~HasKey(MoveLog, l) =>
                  (InSeq(l, LecturesOn(merged, d)) <=>
                      /\ InSeq(l, LecturesOn(base_plan, d)) \/ InSeq(l, LoggedUnder(AddLog, d))
                      /\ ~InSeq(l, LoggedUnder(RemoveLog, d)))
            /\ (InSeq(l, LoggedUnder(AddLog, d)) /\ InSeq(l, LoggedUnder(RemoveLog, d))
                  /\ ~MovedTo(l, d)) => ~InSeq(l, LecturesOn(merged, d))
            /\ (InSeq(l, LoggedUnder(RemoveLog, d)) /\ MovedTo(l, d))
                  => InSeq(l, LecturesOn(merged, d))

\* C1 as stated: a label in both add[d] and remove[d] is absent from day d
C1_AddedAndRemovedAbsent ==
    pc = "done" =>
        \A d \in Range(MergeDays), l \in Labels :
            (InSeq(l, LoggedUnder(AddLog, d)) /\ InSeq(l, LoggedUnder(RemoveLog, d)))
                => ~InSeq(l, LecturesOn(merged, d))

C1_Witness ==
    /\ pc = "done"
    /\ \E d \in Range(MergeDays), l \in Labels :
          /\ InSeq(l, LoggedUnder(AddLog, d))
          /\ InSeq(l, LoggedUnder(RemoveLog, d))
          /\ InSeq(l, LecturesOn(after_add, d))
          /\ ~InSeq(l, LecturesOn(merged, d))

\* C2: after merge_plan, every label with a move entry occurs exactly once in
\* its target day and in no other day
C2_MoveExclusive ==
    pc = "done" =>
        \A i \in 1..Len(MoveLog) :
            /\ Occurrences(MoveLog[i].key, LecturesOn(merged, MoveLog[i].value)) = 1
            /\ \A j \in 1..Len(merged) :
                  merged[j].day # MoveLog[i].value => ~InSeq(MoveLog[i].key, merged[j].lectures)

\* C7: the removal pass keeps the days as they are and leaves in each day
\* exactly the items not listed under that day in remove, in their order; a
\* day that is not in the plan is not created; day [A, B] with remove
\* {day: [A]} alone gives [B] with count 1
C7_RemovalFilters ==
    pc = "done" =>
        /\ DaysOf(after_remove) = DaysOf(after_add)
        /\ \A i \in 1..Len(after_add) :
              after_remove[i].lectures =
                  SelectSeq(after_add[i].lectures,
                            LAMBDA x : x \notin Range(LoggedUnder(RemoveLog, after_add[i].day)))
        /\ \A d \in Range(MergeDays) :
              (/\ LecturesOn(base_plan, d) = <<"A", "B">>
               /\ RemoveLog = <<[key |-> d, value |-> <<"A">>]>>
               /\ AddLog = <<>>
               /\ MoveLog = <<>>)
                  => \E j \in 1..Len(merged) :
                        /\ merged[j].day = d
                        /\ merged[j].lectures = <<"B">>
                        /\ merged[j].count = 1

C7_Witness ==
    /\ pc = "done"
    /\ \E i \in 1..Len(RemoveLog) :
          /\ HasDay(after_add, RemoveLog[i].key)
          /\ \E l \in Range(RemoveLog[i].value) : InSeq(l, LecturesOn(after_add, RemoveLog[i].key))
          /\ \E l \in Range(LecturesOn(after_remove, RemoveLog[i].key)) : TRUE
    /\ \E i \in 1..Len(RemoveLog) : ~HasDay(after_add, RemoveLog[i].key)

\* C9: merge_plan leaves the input plan (days, lists, counts) and the state
\* document as they were before the call
C9_InputsUnchanged ==
    [][(pc = "call" /\ pc' = "done") =>
          /\ DerefPlan(store', BaseRef) = DerefPlan(store, BaseRef)
          /\ DerefPlan(store', BaseRef) = base_plan
          /\ state' = state]_vars

C9_Witness ==
    /\ pc = "done"
    /\ "overrides" \in DOMAIN state
    /\ \E i \in 1..Len(base_plan) :
          LecturesOn(merged, base_plan[i].day) # base_plan[i].lectures
    /\ Len(merged) > Len(base_plan)

\* a list without its repeated items
RECURSIVE Dedup(_)
Dedup(s) ==
    IF s = <<>> THEN <<>>
    ELSE IF InSeq(s[Len(s)], SubSeq(s, 1, Len(s) - 1))
         THEN Dedup(SubSeq(s, 1, Len(s) - 1))
         ELSE Append(Dedup(SubSeq(s, 1, Len(s) - 1)), s[Len(s)])

\* the state document with every label listed once per day in the add log
AddsListedOnce(st) ==
    IF AddLog = <<>> THEN st
    ELSE SetKey(st, "overrides",
                SetKey(OverridesOf(st), "add",
                       [i \in 1..Len(AddLog) |->
                           [key |-> AddLog[i].key, value |-> Dedup(AddLog[i].value)]]))

LecturesByDay(p) == [i \in 1..Len(p) |-> [day |-> p[i].day, lectures |-> p[i].lectures]]

\* C10: additions are idempotent: listing a label more than once under a day
\* of the add log gives the same lecture sequences as listing it once, and
\* after the addition pass a listed label that the day already held occurs as
\* often as before, any other listed label once
C10_AdditionsIdempotent ==
    pc = "done" =>
        /\ LET once == MergePlan(AllocPlan(base_plan), BaseRef, AddsListedOnce(state))
           IN  LecturesByDay(DerefPlan(once.store, once.ref)) = LecturesByDay(merged)
        /\ \A i \in 1..Len(AddLog) : \A l \in Range(AddLog[i].value) :
              Occurrences(l, LecturesOn(after_add, AddLog[i].key)) =
                  IF InSeq(l, LecturesOn(base_plan, AddLog[i].key))
                  THEN Occurrences(l, LecturesOn(base_plan, AddLog[i].key))
                  ELSE 1

C10_Witness ==
    /\ pc = "done"
    /\ \E i \in 1..Len(AddLog) : \E l \in Labels :
          /\ Occurrences(l, AddLog[i].value) = 2
          /\ ~InSeq(l, LecturesOn(base_plan, AddLog[i].key))
          /\ Occurrences(l, LecturesOn(merged, AddLog[i].key)) = 1

----------------------------------------------------------------------------
(* redistribute_to_25_27_without_completed                                 *)

\* f"{day} January"
DayName(n) == ToString(n) \o " January"

\* s[lo:hi] for 0 <= lo <= hi
Slice(s, lo, hi) == SubSeq(s, lo + 1, IF hi < Len(s) THEN hi ELSE Len(s))

\* rec.get(k, False)
GetFlag(rec, k) == IF k \in DOMAIN rec THEN rec[k] ELSE FALSE

\* all_lectures collected from the days taken last to first
RECURSIVE AllLecturesBackwards(_)
AllLecturesBackwards(plan) ==
    IF plan = <<>> THEN <<>>
    ELSE plan[Len(plan)].lectures \o AllLecturesBackwards(SubSeq(plan, 1, Len(plan) - 1))

\* all_lectures: the lectures of every day, in day order
RECURSIVE AllLectures(_)
AllLectures(plan) ==
    IF plan = <<>> THEN <<>>
    ELSE Head(plan).lectures \o AllLectures(Tail(plan))

\* original_day_of_lecture[lecture]: the last day whose list holds the lecture
OriginalDayOf(plan, lecture) ==
    LET i == CHOOSE j \in 1..Len(plan) :
                 /\ InSeq(lecture, plan[j].lectures)
                 /\ \A k \in (j + 1)..Len(plan) : ~InSeq(lecture, plan[k].lectures)
    IN  plan[i].day

\* the loop over the days of state: some record of the lecture has study and exam
IsCompleted(st, lecture) ==
    \E day \in DOMAIN st :
        /\ day # "overrides"
        /\ lecture \in DOMAIN st[day]
        /\ GetFlag(st[day][lecture], "study")
        /\ GetFlag(st[day][lecture], "exam")

\* completed_lectures (completed = TRUE) or uncompleted_lectures (FALSE)
RECURSIVE Partition(_, _, _)
Partition(st, lectures, completed) ==
    IF lectures = <<>> THEN <<>>
    ELSE (IF IsCompleted(st, Head(lectures)) = completed THEN <<Head(lectures)>> ELSE <<>>)
            \o Partition(st, Tail(lectures), completed)

\* redistributed[day] = {"count": 0, "lectures": []} for day in base_plan
RECURSIVE EmptyDays(_)
EmptyDays(plan) ==
    IF plan = <<>> THEN <<>>
    ELSE <<[key |-> Head(plan).day, value |-> <<>>]>> \o EmptyDays(Tail(plan))

\* completed lectures go back to their original day, once
RECURSIVE PreserveCompleted(_, _, _)
PreserveCompleted(red, plan, completed) ==
    IF completed = <<>> THEN red
    ELSE LET day == OriginalDayOf(plan, Head(completed))
             red1 == IF InSeq(Head(completed), Lookup(red, day))
                     THEN red
                     ELSE [red EXCEPT ![KeyIndex(red, day)].value = Append(@, Head(completed))]
         IN  PreserveCompleted(red1, plan, Tail(completed))

\* the extra lecture given to the last "remainder" days
ExtraLast(i, remainder, ndays) == IF i >= ndays - remainder THEN 1 ELSE 0

\* extra = 1 if i < remainder else 0   (i counts from 0)
Extra(i, remainder, ndays) == IF i < remainder THEN 1 ELSE 0

\* for i, day in enumerate(target_days): extend the day with the next slice
RECURSIVE FillTargets(_, _, _, _, _)
FillTargets(red, uncompleted, target_days, i, idx) ==
    IF i >= Len(target_days) THEN red
    ELSE LET per_day   == Len(uncompleted) \div Len(target_days)
             remainder == Len(uncompleted) % Len(target_days)
             count == per_day + Extra(i, remainder, Len(target_days))
             day   == target_days[i + 1]
             red1  == IF HasKey(red, day) THEN red
                      ELSE Append(red, [key |-> day, value |-> <<>>])
             red2  == [red1 EXCEPT ![KeyIndex(red1, day)].value =
                            @ \o Slice(uncompleted, idx, idx + count)]
         IN  FillTargets(red2, uncompleted, target_days, i + 1, idx + count)

\* final_plan without the test for an empty list
RECURSIVE FinalPlanKeepEmpty(_, _)
FinalPlanKeepEmpty(red, order) ==
    IF order = <<>> THEN <<>>
    ELSE (IF HasKey(red, Head(order))
          THEN <<[day |-> Head(order),
                  count |-> Len(Lookup(red, Head(order))),
                  lectures |-> Lookup(red, Head(order))]>>
          ELSE <<>>) \o FinalPlanKeepEmpty(red, Tail(order))

\* final_plan: target days first, then the other base days; empty days left out
RECURSIVE FinalPlan(_, _)
FinalPlan(red, order) ==
    IF order = <<>> THEN <<>>
    ELSE (IF HasKey(red, Head(order)) /\ Lookup(red, Head(order)) # <<>>
          THEN <<[day |-> Head(order),
                  count |-> Len(Lookup(red, Head(order))),
                  lectures |-> Lookup(red, Head(order))]>>
          ELSE <<>>) \o FinalPlan(red, Tail(order))

TargetDays == [i \in 1..3 |-> DayName(24 + i)]

RedistributeTo25_27(plan, st) ==
    LET all_lectures == AllLectures(plan)
        uncompleted  == Partition(st, all_lectures, FALSE)
        completed    == Partition(st, all_lectures, TRUE)
        kept  == PreserveCompleted(EmptyDays(plan), plan, completed)
        red   == FillTargets(kept, uncompleted, TargetDays, 0, 0)
        order == TargetDays \o SelectSeq(DaysOf(plan), LAMBDA d : ~InSeq(d, TargetDays))
    IN  FinalPlan(red, order)

----------------------------------------------------------------------------
(* redistribute_to_days                                                    *)

RECURSIVE FillDays(_, _, _, _, _)
FillDays(all_lectures, days, total, i, idx) ==
    IF i >= Len(days) THEN <<>>
    ELSE LET per_day   == total \div Len(days)
             remainder == total % Len(days)
             count == per_day + (IF i < remainder THEN 1 ELSE 0)
         IN  <<[day |-> days[i + 1],
                count |-> count,
                lectures |-> Slice(all_lectures, idx, idx + count)]>>
                \o FillDays(all_lectures, days, total, i + 1, idx + count)

RedistributeToDays(plan, start, end, total) ==
    LET all_lectures == Slice(AllLectures(plan), 0, total)
        days == [i \in 1..(end + 1 - start) |-> DayName(start + i - 1)]
    IN  FillDays(all_lectures, days, total, 0, 0)

\* the division taken only when there is a day to divide by
DaysErrorGuarded(start, end) == ""

\* what redistribute_to_days raises: range(start_day, end_day + 1) is empty
\* when end_day < start_day, and total_lectures // len(days) divides by zero
\* before any day is written
DaysError(start, end) ==
    IF end + 1 - start <= 0 THEN "ZeroDivisionError" ELSE ""

----------------------------------------------------------------------------
(* The redistributions on every bounded outline and state                  *)

MaxLectures == 4   \* lectures of an outline
MaxSpan == 3       \* target days of redistribute_to_days
MaxTotal == 4      \* total_lectures arguments tried besides the default

Lectures == {"A", "B", "C"}

\* an outline of two days, the second one a target day of the redistribution
Outline(s, k) ==
    <<[day |-> "18 January", count |-> k, lectures |-> SubSeq(s, 1, k)],
      [day |-> "25 January", count |-> Len(s) - k, lectures |-> SubSeq(s, k + 1, Len(s))]>>

\* ten distinct lectures under one day
TenLectures ==
    <<[day |-> "18 January", count |-> 10, lectures |-> [i \in 1..10 |-> "L" \o ToString(i)]]>>

Outlines ==
    UNION {{Outline(s, k) : k \in 0..Len(s)} : s \in BoundedSeqs(Lectures, MaxLectures)}
        \cup {TenLectures}

\* what the state document holds about a lecture
StatusKinds == {"none", "study", "exam", "done", "redone"}

NewRecord(study, exam, completed_on) ==
    [study |-> study, exam |-> exam, completed_on |-> completed_on]

\* the records of a state document: a lecture of kind "study" or "exam" has
\* one of the two boxes ticked, "done" both; "redone" has an unfinished
\* record under one day and a finished, dated one under another
StateWith(kind) ==
    LET first  == {l \in Lectures : kind[l] # "none"}
        second == {l \in Lectures : kind[l] = "redone"}
        days   == (IF first = {} THEN {} ELSE {"25 January"})
                    \cup (IF second = {} THEN {} ELSE {"26 January"})
    IN  [d \in days |->
            IF d = "25 January"
            THEN [l \in first |->
                    NewRecord(kind[l] \in {"study", "done", "redone"},
                              kind[l] \in {"exam", "done"}, "None")]
            ELSE [l \in second |-> NewRecord(TRUE, TRUE, "2026-01-20 10:00")]]

Idle ==
    /\ store = EmptyStore
    /\ merged_ref = 0
    /\ after_add = <<>>
    /\ after_remove = <<>>

InitRedist ==
    /\ base_plan \in Outlines
    /\ \E kind \in [Lectures -> StatusKinds] : state = StateWith(kind)
    /\ Idle
    /\ redist = <<>>
    /\ days_plan = <<>>
    /\ start_day = 0
    /\ end_day = 0
    /\ total_lectures = 0
    /\ IdleAdded
    /\ raised = ""
    /\ pc = "call"

\* current_plan = redistribute_to_25_27_without_completed(base_plan, state)
Redistribute ==
    /\ pc = "call"
    /\ redist' = RedistributeTo25_27(base_plan, state)
    /\ pc' = "done"
    /\ UNCHANGED <<base_plan, state, store, merged_ref, after_add, after_remove,
                   days_plan, start_day, end_day, total_lectures, added, raised>>

NextRedist == Redistribute

SpecRedist == InitRedist /\ [][NextRedist]_vars

DefaultTotal == 93

FirstDay == 22

InitDays ==
    /\ base_plan \in Outlines
    /\ state = EmptyDoc
    /\ Idle
    /\ redist = <<>>
    /\ days_plan = <<>>
    /\ start_day \in FirstDay..(FirstDay + 1)
    /\ end_day \in (start_day - MaxSpan)..(start_day + MaxSpan - 1)
    /\ total_lectures \in 0..MaxTotal \cup {DefaultTotal}
    /\ IdleAdded
    /\ raised = ""
    /\ pc = "call"

\* current_plan = redistribute_to_days(base_plan, start_day, end_day, total_lectures)
\* an exception leaves the function before its return: current_plan is not bound
RedistributeDays ==
    /\ pc = "call"
    /\ raised' = DaysError(start_day, end_day)
    /\ IF raised' = ""
          THEN /\ days_plan' = RedistributeToDays(base_plan, start_day, end_day, total_lectures)
               /\ pc' = "done"
          ELSE /\ days_plan' = days_plan
               /\ pc' = "raised"
    /\ UNCHANGED <<base_plan, state, store, merged_ref, after_add, after_remove,
                   redist, start_day, end_day, total_lectures, added>>

NextDays == RedistributeDays

SpecDays == InitDays /\ [][NextDays]_vars

----------------------------------------------------------------------------
(* Properties of the redistributions                                       *)

\* the lectures of days i.. of plan p, one day after the other
RECURSIVE LecturesFrom(_, _)
LecturesFrom(p, i) ==
    IF i > Len(p) THEN <<>> ELSE p[i].lectures \o LecturesFrom(p, i + 1)

\* some record of the state document has study and exam set for the label
HasFinishedRecord(l) ==
    \E d \in DOMAIN state \ {"overrides"} :
        l \in DOMAIN state[d] /\ state[d][l].study /\ state[d][l].exam

Unfinished(s) == SelectSeq(s, LAMBDA l : ~HasFinishedRecord(l))

\* the uncompleted lectures of the base plan, in base plan order
BaseUnfinished == Unfinished(LecturesFrom(base_plan, 1))

\* the uncompleted lectures the returned plan holds under a day
Assigned(d) == Unfinished(LecturesOn(redist, d))

\* C3: with M uncompleted lectures, the first M mod 3 of the days 25, 26, 27
\* January hold M div 3 + 1 uncompleted lectures each and the others M div 3;
\* the counts sum to M and differ by at most 1; ten lectures give 4, 3, 3
C3_BalancedCounts ==
    pc = "done" =>
        LET M == Len(BaseUnfinished)
            n25 == Len(Assigned("25 January"))
            n26 == Len(Assigned("26 January"))
            n27 == Len(Assigned("27 January"))
        IN  /\ n25 = (M \div 3) + (IF M % 3 >= 1 THEN 1 ELSE 0)
            /\ n26 = (M \div 3) + (IF M % 3 >= 2 THEN 1 ELSE 0)
            /\ n27 = M \div 3
            /\ n25 + n26 + n27 = M
            /\ n25 - n27 <= 1 /\ n25 >= n26 /\ n26 >= n27
            /\ M = 10 => <<n25, n26, n27>> = <<4, 3, 3>>

C3_Witness ==
    /\ pc = "done"
    /\ Len(BaseUnfinished) > 3
    /\ Len(BaseUnfinished) % 3 = 1
    /\ Len(Assigned("25 January")) = Len(Assigned("26 January")) + 1
    /\ Len(Assigned("27 January")) = Len(Assigned("26 January"))

\* C5: the uncompleted lectures of 25, 26 and 27 January, one day after the
\* other, are the uncompleted lectures of the base plan in base plan order
C5_OrderPreserved ==
    pc = "done" =>
        Assigned("25 January") \o Assigned("26 January") \o Assigned("27 January")
            = BaseUnfinished

C5_Witness ==
    /\ pc = "done"
    /\ Len(BaseUnfinished) >= 3
    /\ Cardinality(Range(BaseUnfinished)) >= 2
    /\ Len(BaseUnfinished) < Len(LecturesFrom(base_plan, 1))
    /\ Assigned("27 January") # <<>>

\* C6: every lecture of the base plan that has a record with study and exam
\* set is, in the returned plan, under the day it has in the base plan and
\* under no day where the base plan does not have it
C6_CompletedStay ==
    pc = "done" =>
        \A i \in 1..Len(base_plan) : \A l \in Range(base_plan[i].lectures) :
            HasFinishedRecord(l) =>
                /\ InSeq(l, LecturesOn(redist, base_plan[i].day))
                /\ \A j \in 1..Len(redist) :
                      InSeq(l, redist[j].lectures)
                          => InSeq(l, LecturesOn(base_plan, redist[j].day))

\* C4: the days returned by redistribute_to_days hold, together, every
\* lecture of the base plan exactly once, and any two of them differ by at
\* most one lecture
C4_DaysConserveAndBalance ==
    pc = "done" =>
        /\ LecturesFrom(days_plan, 1) = LecturesFrom(base_plan, 1)
        /\ \A i, j \in 1..Len(days_plan) :
              Len(days_plan[i].lectures) - Len(days_plan[j].lectures) <= 1

\* C8: in every plan the checklist renders, the plan returned by merge_plan
\* and the plan returned by redistribute_to_days alike, each day's count is
\* the length of the day's lecture list
C8_CountIsLength ==
    /\ \A i \in 1..Len(merged) : merged[i].count = Len(merged[i].lectures)
    /\ \A i \in 1..Len(days_plan) : days_plan[i].count = Len(days_plan[i].lectures)

----------------------------------------------------------------------------
(* Interval durations (main_v.py, main_final.py)                           *)

MinutesPerDay == 1440

\* datetime.time values, to the minute
Times == [hour : 0..23, minute : 0..59]

Midnight == [hour |-> 0, minute |-> 0]

\* t.hour * 60 + t.minute
MinuteOfDay(t) == t.hour * 60 + t.minute

\* the comparison taken strictly: equal times would count as crossing midnight
IntervalDurationStrict(start, end) ==
    LET s_min == MinuteOfDay(start)
        e_min == MinuteOfDay(end)
    IN  IF e_min > s_min THEN e_min - s_min ELSE (MinutesPerDay - s_min) + e_min

\* calculate_interval_duration(start_time, end_time)
calculate_interval_duration(start, end) ==
    LET s_min == MinuteOfDay(start)
        e_min == MinuteOfDay(end)
    IN  IF e_min >= s_min THEN e_min - s_min ELSE (MinutesPerDay - s_min) + e_min

PlanningIdle ==
    /\ base_plan = <<>>
    /\ state = EmptyDoc
    /\ Idle
    /\ redist = <<>>
    /\ days_plan = <<>>
    /\ start_day = 0
    /\ end_day = 0
    /\ total_lectures = 0

planVars == <<base_plan, state, store, merged_ref, after_add, after_remove,
              redist, days_plan, start_day, end_day, total_lectures>>

InitTime ==
    /\ start_time \in Times
    /\ end_time \in Times
    /\ duration = 0
    /\ IdleLecture /\ IdleView /\ IdleParse /\ IdleSession /\ IdleTracker
    /\ PlanningIdle
    /\ raised = ""
    /\ pc = "call"

\* duration = calculate_interval_duration(start_time, end_time)
CalculateDuration ==
    /\ pc = "call"
    /\ duration' = calculate_interval_duration(start_time, end_time)
    /\ pc' = "done"
    /\ UNCHANGED <<planVars, start_time, end_time, lectureVars, viewVars, parseVars,
                   sessionVars, trackerVars, raised>>

NextTime == CalculateDuration

SpecTime == InitTime /\ [][NextTime]_vars

\* C11: the duration of an interval is the one number of minutes in 0..1439
\* that leads from its start to its end on the 24-hour clock: end - start when
\* the end is not before the start, 1440 - start + end otherwise, and 0 when
\* start and end are the same time
C11_DurationOnClock ==
    pc = "done" =>
        LET s == MinuteOfDay(start_time)
            e == MinuteOfDay(end_time)
        IN  /\ duration \in 0..1439
            /\ (s + duration) % 1440 = e
            /\ e >= s => duration = e - s
            /\ e < s => duration = (1440 - s) + e
            /\ start_time = end_time => duration = 0

C11_Witness ==
    /\ pc = "done"
    /\ start_time = [hour |-> 23, minute |-> 30]
    /\ end_time = [hour |-> 0, minute |-> 30]
    /\ duration = 60

----------------------------------------------------------------------------
(* Stored times (main_v.py parse_time_str, main_final.py lines 371-377)    *)

Digits == <<"0", "1", "2", "3", "4", "5", "6", "7", "8", "9">>

IsDigit(c) == \E d \in 1..Len(Digits) : Digits[d] = c

DigitValue(c) == (CHOOSE d \in 1..Len(Digits) : Digits[d] = c) - 1

AllDigits(s) == \A k \in 1..Len(s) : IsDigit(s[k])

\* int() of one or two digits
Number(s) ==
    IF Len(s) = 1 THEN DigitValue(s[1]) ELSE 10 * DigitValue(s[1]) + DigitValue(s[2])

\* the values a record field holds: a string (by its characters), None, a
\* datetime.time
Str(chars) == [kind |-> "str", chars |-> chars]

None == [kind |-> "None"]

TimeOf(t) == [kind |-> "time", time |-> t]

\* datetime.strptime(s, "%H:%M").time(): hours 0..23 and minutes 0..59 of one
\* or two digits around one colon, nothing before, between or after
Strptime(chars) ==
    LET colons == {i \in 1..Len(chars) : chars[i] = ":"}
    IN  IF colons = {} THEN [ok |-> FALSE]
        ELSE LET i == CHOOSE j \in colons : \A k \in colons : j <= k
                 h == SubSeq(chars, 1, i - 1)
                 m == SubSeq(chars, i + 1, Len(chars))
             IN  IF /\ Len(h) \in 1..2 /\ AllDigits(h)
                    /\ Len(m) \in 1..2 /\ AllDigits(m)
                    /\ Number(h) <= 23 /\ Number(m) <= 59
                 THEN [ok |-> TRUE, time |-> [hour |-> Number(h), minute |-> Number(m)]]
                 ELSE [ok |-> FALSE]

\* parse_time_str(time_str): a time is returned as it is; what strptime
\* rejects (ValueError, or TypeError for None) gives time(0, 0)
parse_time_str(v) ==
    IF v.kind = "time" THEN v.time
    ELSE IF v.kind = "str" /\ Strptime(v.chars).ok THEN Strptime(v.chars).time
    ELSE Midnight

\* whether strptime accepts the value of a field
ValidTime(v) == v.kind = "str" /\ Strptime(v.chars).ok

----------------------------------------------------------------------------
(* The render of one lecture (main_v.py lines 392-596, main_final.py       *)
(* lines 347-388), no widget touched                                       *)

\* {"start": "00:00", "end": "00:00"}
DefaultInterval ==
    [k \in {"start", "end"} |-> Str(<<"0", "0", ":", "0", "0">>)]

\* if "intervals" not in lec_state or not lec_state["intervals"]: one default
EnsureIntervals(rec) ==
    IF "intervals" \notin DOMAIN rec \/ rec["intervals"] = <<>>
    THEN [k \in DOMAIN rec \cup {"intervals"} |->
            IF k = "intervals" THEN <<DefaultInterval>> ELSE rec[k]]
    ELSE rec

\* interval["start"], interval["end"] raise KeyError on an interval without the key
HasBothKeys(interval) == {"start", "end"} \subseteq DOMAIN interval

\* the total without accumulation: the first interval only
TotalDurationFirst(intervals) ==
    IF intervals = <<>> THEN 0
    ELSE calculate_interval_duration(parse_time_str(Head(intervals)["start"]),
                                     parse_time_str(Head(intervals)["end"]))

\* the sum of calculate_interval_duration over the intervals, each field
\* read by parse_time_str
RECURSIVE TotalDuration(_)
TotalDuration(intervals) ==
    IF intervals = <<>> THEN 0
    ELSE calculate_interval_duration(parse_time_str(Head(intervals)["start"]),
                                     parse_time_str(Head(intervals)["end"]))
            + TotalDuration(Tail(intervals))

\* interval["start"] = new_start, interval["end"] = new_end: the time inputs
\* give back the parsed values
RECURSIVE ShowIntervals(_)
ShowIntervals(intervals) ==
    IF intervals = <<>> THEN <<>>
    ELSE <<[k \in {"start", "end"} |-> TimeOf(parse_time_str(Head(intervals)[k]))]>>
            \o ShowIntervals(Tail(intervals))

\* main_v.py: the lecture's record and total after its render, or KeyError
RenderIntervals(rec) ==
    LET r == EnsureIntervals(rec)
    IN  IF \E i \in 1..Len(r["intervals"]) : ~HasBothKeys(r["intervals"][i])
        THEN [raised |-> "KeyError", lec_state |-> r, total |-> 0]
        ELSE [raised |-> "",
              lec_state |-> [k \in DOMAIN r |->
                                IF k = "intervals" THEN ShowIntervals(r["intervals"])
                                ELSE r[k]],
              total |-> TotalDuration(r["intervals"])]

\* main_final.py: start_t and end_t are both parsed in one try block; a
\* missing key, None or a rejected string in either gives time(0, 0) for both
ReadStartEnd(rec) ==
    IF /\ {"start", "end"} \subseteq DOMAIN rec
       /\ ValidTime(rec["start"]) /\ ValidTime(rec["end"])
    THEN [start |-> Strptime(rec["start"].chars).time, end |-> Strptime(rec["end"].chars).time]
    ELSE [start |-> Midnight, end |-> Midnight]

RenderStartEnd(rec) ==
    LET t == ReadStartEnd(rec)
    IN  [raised |-> "",
         lec_state |-> [k \in DOMAIN rec \cup {"start", "end"} |->
                            IF k = "start" THEN TimeOf(t.start)
                            ELSE IF k = "end" THEN TimeOf(t.end) ELSE rec[k]],
         total |-> calculate_interval_duration(t.start, t.end)]

MaxSlots == 2      \* intervals of a stored lecture record

\* strings found in a start or end field: 22:00, 00:30, 9:5, and the
\* rejected 24:00 and ab
TimeTexts ==
    {<<"2", "2", ":", "0", "0">>, <<"0", "0", ":", "3", "0">>, <<"9", ":", "5">>,
     <<"2", "4", ":", "0", "0">>, <<"a", "b">>}

StoredFields == {Str(c) : c \in TimeTexts} \cup {None}

\* an interval or record may lack either key
StoredIntervals == UNION {[D -> StoredFields] : D \in SUBSET {"start", "end"}}

WithFlags(f) ==
    [k \in DOMAIN f \cup {"study", "exam"} |->
        IF k \in {"study", "exam"} THEN FALSE ELSE f[k]]

\* records as main_v.py saves them (intervals) and as main_final.py does
\* (start, end), and the ones a file edited by hand may hold
LectureRecords ==
    {WithFlags([k \in {"intervals"} |-> s]) : s \in BoundedSeqs(StoredIntervals, MaxSlots)}
        \cup {WithFlags(f) : f \in StoredIntervals}

InitLecture ==
    /\ stored \in LectureRecords
    /\ lec_state = stored
    /\ lecture_total_min = 0
    /\ IdleTime /\ IdleView /\ IdleParse /\ IdleSession /\ IdleTracker
    /\ PlanningIdle
    /\ raised = ""
    /\ pc = "call"

\* main_v.py renders the lecture
RenderLectureV ==
    /\ pc = "call"
    /\ \E r \in {RenderIntervals(lec_state)} :
           /\ raised' = r.raised
           /\ lec_state' = r.lec_state
           /\ lecture_total_min' = r.total
    /\ pc' = "main_v"
    /\ UNCHANGED <<planVars, timeVars, stored, viewVars, parseVars, sessionVars, trackerVars>>

\* main_final.py renders the lecture
RenderLectureFinal ==
    /\ pc = "call"
    /\ \E r \in {RenderStartEnd(lec_state)} :
           /\ raised' = r.raised
           /\ lec_state' = r.lec_state
           /\ lecture_total_min' = r.total
    /\ pc' = "main_final"
    /\ UNCHANGED <<planVars, timeVars, stored, viewVars, parseVars, sessionVars, trackerVars>>

NextLecture == RenderLectureV \/ RenderLectureFinal

SpecLecture == InitLecture /\ [][NextLecture]_vars

\* whether the stored field k of f is missing or not a valid HH:MM string
Unreadable(f, k) == k \notin DOMAIN f \/ ~ValidTime(f[k])

\* C19: the render of a lecture does not fail, and a start or end that is
\* missing or not a valid HH:MM string is shown as 00:00
C19_UnreadableAsMidnight ==
    /\ pc \in {"main_v", "main_final"} => raised = ""
    /\ pc = "main_final" =>
          \A k \in {"start", "end"} :
              Unreadable(stored, k) => lec_state[k] = TimeOf(Midnight)
    /\ (pc = "main_v" /\ "intervals" \in DOMAIN stored) =>
          \A i \in 1..Len(stored["intervals"]) : \A k \in {"start", "end"} :
              Unreadable(stored["intervals"][i], k)
                  => /\ i <= Len(lec_state["intervals"])
                     /\ k \in DOMAIN lec_state["intervals"][i]
                     /\ lec_state["intervals"][i][k] = TimeOf(Midnight)

----------------------------------------------------------------------------
(* The day view and the summaries (main_v.py lines 379-677) and the        *)
(* statistics of main_ui.py (update_stats)                                 *)

UpperCase ==
    <<"A", "B", "C", "D", "E", "F", "G", "H", "I", "J", "K", "L", "M",
      "N", "O", "P", "Q", "R", "S", "T", "U", "V", "W", "X", "Y", "Z">>

LowerCase ==
    <<"a", "b", "c", "d", "e", "f", "g", "h", "i", "j", "k", "l", "m",
      "n", "o", "p", "q", "r", "s", "t", "u", "v", "w", "x", "y", "z">>

\* str.lower() of one character
Lower(c) ==
    IF \E i \in 1..Len(UpperCase) : UpperCase[i] = c
    THEN LowerCase[CHOOSE i \in 1..Len(UpperCase) : UpperCase[i] = c]
    ELSE c

\* not (search and search.lower() not in lecture.lower()), for a search text
\* and a lecture name of at most one letter
Matches(srch, lecture) == srch = "" \/ Lower(srch) = Lower(lecture)

\* the record state[selected_day].setdefault(lecture, {...}) inserts
DefaultRecord(day) ==
    [study |-> FALSE, exam |-> FALSE, notes |-> "", intervals |-> <<DefaultInterval>>,
     link |-> "", completed_on |-> "None", assigned_day |-> day]

NoCounters == [total_lec |-> 0, studied |-> 0, examed |-> 0, total_min_today |-> 0]

\* the loop over current_plan[selected_day]["lectures"]: every lecture that
\* passes the filter gets its record (a default one if it has none), is
\* rendered and is counted
RECURSIVE RenderLoop(_, _, _, _, _)
RenderLoop(st, day, lectures, srch, acc) ==
    IF lectures = <<>> THEN [state |-> st, raised |-> "", counters |-> acc]
    ELSE IF ~Matches(srch, Head(lectures))
    THEN RenderLoop(st, day, Tail(lectures), srch, acc)
    ELSE LET lecture   == Head(lectures)
             day_state == IF day \in DOMAIN st THEN st[day] ELSE EmptyDoc
             rec       == IF lecture \in DOMAIN day_state THEN day_state[lecture]
                          ELSE DefaultRecord(day)
             r         == RenderIntervals(rec)
             st1       == SetKey(st, day, SetKey(day_state, lecture, r.lec_state))
         IN  IF r.raised # ""
             THEN [state |-> st1, raised |-> r.raised, counters |-> acc]
             ELSE RenderLoop(st1, day, Tail(lectures), srch,
                     [total_lec |-> acc.total_lec + 1,
                      studied |-> acc.studied + (IF r.lec_state["study"] THEN 1 ELSE 0),
                      examed |-> acc.examed + (IF r.lec_state["exam"] THEN 1 ELSE 0),
                      total_min_today |-> acc.total_min_today + r.total])

\* the ticks divided by the lectures, not by the boxes
PercentOfLectures(studied, examed, total) == [num |-> (studied + examed) * 100, den |-> total]

\* ((studied + examed) / (2 * total)) * 100, as the fraction num / den
Percent(studied, examed, total) == [num |-> (studied + examed) * 100, den |-> 2 * total]

\* the summary under the lectures; without a lecture shown there is none
\* ("No lectures match the current filter.")
Summary(c) ==
    IF c.total_lec > 0
    THEN [total_lec |-> c.total_lec, studied |-> c.studied, examed |-> c.examed,
          total_min_today |-> c.total_min_today,
          progress |-> Percent(c.studied, c.examed, c.total_lec)]
    ELSE [total_lec |-> 0]

\* lec_state.get("intervals", [{"start": "00:00", "end": "00:00"}])
IntervalsOf(rec) == IF "intervals" \in DOMAIN rec THEN rec["intervals"] ELSE <<DefaultInterval>>

\* one row of the day summary table: the lectures of the day that have a
\* record under the day are timed and counted
RECURSIVE DayRow(_, _, _, _)
DayRow(st, day, lectures, row) ==
    IF lectures = <<>> THEN row
    ELSE LET lecture == Head(lectures)
         IN  IF day \in DOMAIN st /\ lecture \in DOMAIN st[day]
             THEN LET rec == st[day][lecture]
                  IN  DayRow(st, day, Tail(lectures),
                        [row EXCEPT
                           !.day_total_min = @ + TotalDuration(IntervalsOf(rec)),
                           !.day_studied = @ + (IF GetFlag(rec, "study") THEN 1 ELSE 0),
                           !.day_examed = @ + (IF GetFlag(rec, "exam") THEN 1 ELSE 0),
                           !.day_completed = @ + (IF GetFlag(rec, "study") /\ GetFlag(rec, "exam")
                                                  THEN 1 ELSE 0)])
             ELSE DayRow(st, day, Tail(lectures), row)

\* summary_data: a row for every day of the plan, in sorted order
RECURSIVE SummaryData(_, _, _)
SummaryData(p, st, i) ==
    IF i > Len(p) THEN <<>>
    ELSE LET row == DayRow(st, p[i].day, p[i].lectures,
                        [day_total_min |-> 0, day_studied |-> 0, day_examed |-> 0,
                         day_completed |-> 0])
             n   == Len(p[i].lectures)
         IN  <<[Day |-> p[i].day, Lectures |-> n, Completed |-> row.day_completed,
                Time |-> row.day_total_min,
                Progress |-> Percent(row.day_studied, row.day_examed, IF n > 1 THEN n ELSE 1)]>>
                \o SummaryData(p, st, i + 1)

\* main_ui.py update_stats: every listed lecture counts; its boxes are
\* read with state.get(day, {}).get(lecture, {}).get(...)
RECURSIVE CountTicked(_, _, _, _)
CountTicked(st, day, lectures, k) ==
    IF lectures = <<>> THEN 0
    ELSE (IF /\ day \in DOMAIN st
             /\ Head(lectures) \in DOMAIN st[day]
             /\ GetFlag(st[day][Head(lectures)], k)
          THEN 1 ELSE 0) + CountTicked(st, day, Tail(lectures), k)

RECURSIVE UpdateStatsFrom(_, _, _, _)
UpdateStatsFrom(p, st, i, acc) ==
    IF i > Len(p) THEN acc
    ELSE UpdateStatsFrom(p, st, i + 1,
            [total |-> acc.total + Len(p[i].lectures),
             studied |-> acc.studied + CountTicked(st, p[i].day, p[i].lectures, "study"),
             examed |-> acc.examed + CountTicked(st, p[i].day, p[i].lectures, "exam")])

\* progress is 0.0 unless total > 0
update_stats(p, st) ==
    LET c == UpdateStatsFrom(p, st, 1, [total |-> 0, studied |-> 0, examed |-> 0])
    IN  [total |-> c.total, studied |-> c.studied, examed |-> c.examed,
         progress |-> IF c.total > 0 THEN Percent(c.studied, c.examed, c.total)
                      ELSE [num |-> 0, den |-> 1]]

MaxShown == 2      \* lectures listed under the selected day
MaxIntervals == 2  \* intervals recorded for a lecture

Interval(a, b) == [k \in {"start", "end"} |-> Str(IF k = "start" THEN a ELSE b)]

\* 22:00-23:00 and 23:30-00:30
RecordedIntervals ==
    {Interval(<<"2", "2", ":", "0", "0">>, <<"2", "3", ":", "0", "0">>),
     Interval(<<"2", "3", ":", "3", "0">>, <<"0", "0", ":", "3", "0">>)}

\* records with any boxes ticked and no time recorded, as main_ui.py keeps
\* them (two flags) and as main_v.py creates them
TickedRecords ==
    [study : BOOLEAN, exam : BOOLEAN]
        \cup {[DefaultRecord("25 January") EXCEPT !.study = f.study, !.exam = f.exam] :
                f \in [study : BOOLEAN, exam : BOOLEAN]}

\* records with time recorded
TimedRecords ==
    {[DefaultRecord("25 January") EXCEPT !.study = TRUE, !.intervals = s] :
        s \in BoundedSeqs(RecordedIntervals, MaxIntervals)}

ViewRecords == TickedRecords \cup TimedRecords

\* the plan shown: 25 January with up to MaxShown lectures, and possibly 26 January
ViewPlans ==
    {PlanFrom(MergeDays, P, f, 1) :
        P \in {{1}, {1, 2}},
        f \in {g \in [1..2 -> BoundedSeqs(Labels, MaxShown)] : g[2] = <<"B">>}}

\* the documents read: the empty one, and the ones with a finished lecture
\* under 26 January and any records under 25 January
ViewStates ==
    LET first == UNION {[D -> ViewRecords] : D \in SUBSET Labels}
        other == [B |-> [DefaultRecord("26 January") EXCEPT
                            !.study = TRUE, !.exam = TRUE,
                            !.completed_on = "2026-01-20 10:00",
                            !.intervals = <<Interval(<<"2", "2", ":", "0", "0">>,
                                                     <<"2", "3", ":", "0", "0">>)>>]]
    IN  {EmptyDoc} \cup
        {IF r = EmptyDoc THEN [d \in {"26 January"} |-> other]
         ELSE [d \in {"25 January", "26 January"} |->
                 IF d = "25 January" THEN r ELSE other] : r \in first}

viewIdle ==
    /\ base_plan = <<>>
    /\ Idle
    /\ redist = <<>>
    /\ days_plan = <<>>
    /\ start_day = 0
    /\ end_day = 0
    /\ total_lectures = 0

InitView ==
    /\ current_plan \in ViewPlans
    /\ state \in ViewStates
    /\ selected_day \in Range(DaysOf(current_plan))
    /\ search \in {"", "a"}
    /\ summary = <<>>
    /\ summary_data = <<>>
    /\ viewIdle
    /\ IdleTime /\ IdleLecture /\ IdleParse /\ IdleSession /\ IdleTracker
    /\ raised = ""
    /\ pc = "call"

\* main_v.py shows the selected day, its summary and the day summary table
RenderDayView ==
    /\ pc = "call"
    /\ \E r \in {RenderLoop(state, selected_day, LecturesOn(current_plan, selected_day),
                            search, NoCounters)} :
           /\ state' = r.state
           /\ raised' = r.raised
           /\ summary' = IF r.raised = "" THEN Summary(r.counters) ELSE summary
           /\ summary_data' = IF r.raised = "" THEN SummaryData(current_plan, r.state, 1)
                              ELSE summary_data
    /\ pc' = "main_v"
    /\ UNCHANGED <<base_plan, store, merged_ref, after_add, after_remove, redist, days_plan,
                   start_day, end_day, total_lectures, current_plan, selected_day, search,
                   timeVars, lectureVars, parseVars, sessionVars, trackerVars>>

\* main_ui.py refreshes its statistics line
UpdateStats ==
    /\ pc = "call"
    /\ summary' = update_stats(current_plan, state)
    /\ pc' = "main_ui"
    /\ UNCHANGED <<planVars, current_plan, selected_day, search, summary_data,
                   timeVars, lectureVars, parseVars, sessionVars, trackerVars, raised>>

NextView == RenderDayView \/ UpdateStats

SpecView == InitView /\ [][NextView]_vars

----------------------------------------------------------------------------
(* Properties of the day view and the statistics                           *)

\* minutes from the start to the end of an interval on the 24-hour clock
ClockMinutes(interval) ==
    (MinuteOfDay(parse_time_str(interval["end"]))
        - MinuteOfDay(parse_time_str(interval["start"]))) % 1440

RECURSIVE SumOver(_, _)
SumOver(f, n) == IF n = 0 THEN 0 ELSE f[n] + SumOver(f, n - 1)

\* the time recorded for a lecture under a day: none without a record
RecordedMinutes(day, lecture) ==
    IF day \in DOMAIN state /\ lecture \in DOMAIN state[day]
    THEN LET ivs == IntervalsOf(state[day][lecture])
         IN  SumOver([i \in 1..Len(ivs) |-> ClockMinutes(ivs[i])], Len(ivs))
    ELSE 0

\* the lectures of a list that pass the filter
ShownOf(lectures) == SelectSeq(lectures, LAMBDA l : Matches(search, l))

\* the time recorded for the lectures of a list, one term per listing
ListedMinutes(day, lectures) ==
    SumOver([i \in 1..Len(lectures) |-> RecordedMinutes(day, lectures[i])], Len(lectures))

Ticked(day, lecture, k) ==
    /\ day \in DOMAIN state
    /\ lecture \in DOMAIN state[day]
    /\ GetFlag(state[day][lecture], k)

\* the number of listings of a list whose box k is ticked
TickedIn(day, lectures, k) ==
    Cardinality({i \in 1..Len(lectures) : Ticked(day, lectures[i], k)})

\* p is the percentage (studied + examed) / (2 * total) * 100 of the
\* lectures listed; 0 for none, 100 when every box is ticked, within 0..100
IsProgressOf(p, day, lectures) ==
    LET total   == Len(lectures)
        studied == TickedIn(day, lectures, "study")
        examed  == TickedIn(day, lectures, "exam")
    IN  /\ p.den > 0
        /\ 0 <= p.num /\ p.num <= 100 * p.den
        /\ total = 0 => p.num = 0
        /\ total > 0 => p.num * 2 * total = (studied + examed) * 100 * p.den
        /\ (total > 0 /\ studied = total /\ examed = total) => p.num = 100 * p.den

\* the listings of the whole plan, as <<day, lecture>> pairs in plan order
RECURSIVE Listings(_, _)
Listings(p, i) ==
    IF i > Len(p) THEN <<>>
    ELSE [j \in 1..Len(p[i].lectures) |-> <<p[i].day, p[i].lectures[j]>>] \o Listings(p, i + 1)

\* C13: the progress shown is (studied + examed) / (2 * total) * 100 over
\* the lectures it covers: the whole plan in main_ui.py, the lectures shown
\* of the selected day and each day of the summary table in main_v.py; it
\* is 0 for no lecture, 100 when all are studied and examined, and never
\* outside 0..100
C13_ProgressPercent ==
    /\ pc = "main_ui" =>
          LET all     == Listings(current_plan, 1)
              total   == Len(all)
              studied == Cardinality({i \in 1..total : Ticked(all[i][1], all[i][2], "study")})
              examed  == Cardinality({i \in 1..total : Ticked(all[i][1], all[i][2], "exam")})
              p       == summary.progress
          IN  /\ summary.total = total
              /\ p.den > 0
              /\ 0 <= p.num /\ p.num <= 100 * p.den
              /\ total = 0 => p.num = 0
              /\ total > 0 => p.num * 2 * total = (studied + examed) * 100 * p.den
              /\ (total > 0 /\ studied = total /\ examed = total) => p.num = 100 * p.den
    /\ pc = "main_v" =>
          /\ summary.total_lec > 0 =>
                IsProgressOf(summary.progress, selected_day,
                             ShownOf(LecturesOn(current_plan, selected_day)))
          /\ \A i \in 1..Len(summary_data) :
                IsProgressOf(summary_data[i].Progress, current_plan[i].day,
                             current_plan[i].lectures)

\* the summary table shows 0 for a day without lectures and 100 for a day
\* whose lecture is studied and examined, as does the view of that day
C13_Witness ==
    /\ pc = "main_v"
    /\ Len(summary_data) = 2
    /\ summary_data[1].Lectures = 0
    /\ summary_data[1].Progress.num = 0
    /\ summary_data[2].Lectures = 1
    /\ summary_data[2].Progress.num = summary_data[2].Progress.den * 100
    /\ selected_day = "26 January"
    /\ summary.total_lec = 1
    /\ summary.progress.num = summary.progress.den * 100

----------------------------------------------------------------------------
(* parse_plan (main_final.py, FinalStudy/main_ui.py); a line is the        *)
(* sequence of its characters                                              *)

IsSpace(c) == c \in {" ", "\t"}

\* the first position from i on that holds no white space (no digit)
RECURSIVE SkipSpaces(_, _)
SkipSpaces(line, i) ==
    IF i <= Len(line) /\ IsSpace(line[i]) THEN SkipSpaces(line, i + 1) ELSE i

RECURSIVE SkipDigits(_, _)
SkipDigits(line, i) ==
    IF i <= Len(line) /\ IsDigit(line[i]) THEN SkipDigits(line, i + 1) ELSE i

\* line.strip()
RECURSIVE StripRight(_)
StripRight(line) ==
    IF line # <<>> /\ IsSpace(line[Len(line)])
    THEN StripRight(SubSeq(line, 1, Len(line) - 1)) ELSE line

Strip(line) == StripRight(SubSeq(line, SkipSpaces(line, 1), Len(line)))

\* whether word stands at position i of line, letter case ignored
WordAt(line, i, word) ==
    /\ i + Len(word) - 1 <= Len(line)
    /\ \A k \in 1..Len(word) : Lower(line[i + k - 1]) = Lower(word[k])

\* int() of a run of digits
RECURSIVE IntOf(_)
IntOf(digits) ==
    IF digits = <<>> THEN 0
    ELSE 10 * IntOf(SubSeq(digits, 1, Len(digits) - 1)) + DigitValue(digits[Len(digits)])

January == <<"J", "a", "n", "u", "a", "r", "y">>

Lecture == <<"l", "e", "c", "t", "u", "r", "e">>

StudyPlan == <<"s", "t", "u", "d", "y", " ", "p", "l", "a", "n">>

\* DAY_HEADER_RE.match(line) for ^(\d{1,2}\s+January)\s*\((\d+)\s*lectures?\)
\* with re.IGNORECASE; main_ui.py has "lectures" without the question mark
\* (singular = FALSE)
MatchHeader(line, singular) ==
    LET d == SkipDigits(line, 1)            \* behind the day of the month
        w == SkipSpaces(line, d)            \* at "January"
        j == w + Len(January)               \* behind "January"
        p == SkipSpaces(line, j)            \* at "("
        c == SkipDigits(line, p + 1)        \* behind the count
        q == SkipSpaces(line, c)            \* at "lecture"
        r == q + Len(Lecture)               \* behind "lecture"
    IN  IF /\ d - 1 \in 1..2
           /\ w > d
           /\ WordAt(line, w, January)
           /\ WordAt(line, p, <<"(">>)
           /\ c > p + 1
           /\ WordAt(line, q, Lecture)
           /\ \/ WordAt(line, r, <<"s", ")">>)
              \/ singular /\ WordAt(line, r, <<")">>)
        THEN [ok |-> TRUE, day |-> SubSeq(line, 1, j - 1),
              count |-> IntOf(SubSeq(line, p + 1, c - 1))]
        ELSE [ok |-> FALSE]

\* line.lower().startswith("study plan")
IsTitle(line) == WordAt(line, 1, StudyPlan)

\* plan[day] = {"count": count, "lectures": []}: a new day goes last, a day
\* already in the plan keeps its place and starts over
OpenDay(p, day, count) ==
    IF HasDay(p, day)
    THEN LET i == CHOOSE k \in 1..Len(p) : p[k].day = day
         IN  SubSeq(p, 1, i - 1) \o <<[day |-> day, count |-> count, lectures |-> <<>>]>>
                \o SubSeq(p, i + 1, Len(p))
    ELSE Append(p, [day |-> day, count |-> count, lectures |-> <<>>])

\* plan[current_day]["lectures"].append(line)
AppendLecture(p, day, line) ==
    LET i == CHOOSE k \in 1..Len(p) : p[k].day = day
    IN  SubSeq(p, 1, i - 1)
            \o <<[day |-> day, count |-> p[i].count, lectures |-> Append(p[i].lectures, line)]>>
            \o SubSeq(p, i + 1, Len(p))

\* the loop of parse_plan from line i on; current_day is <<>> for None
RECURSIVE ParseFrom(_, _, _, _, _)
ParseFrom(lines, i, p, current_day, singular) ==
    IF i > Len(lines) THEN p
    ELSE LET line == Strip(lines[i])
             m    == MatchHeader(line, singular)
         IN  IF line = <<>> THEN ParseFrom(lines, i + 1, p, current_day, singular)
             ELSE IF m.ok
             THEN ParseFrom(lines, i + 1, OpenDay(p, m.day, m.count), m.day, singular)
             ELSE IF IsTitle(line) THEN ParseFrom(lines, i + 1, p, current_day, singular)
             ELSE IF current_day # <<>>
             THEN ParseFrom(lines, i + 1, AppendLecture(p, current_day, line),
                            current_day, singular)
             ELSE ParseFrom(lines, i + 1, p, current_day, singular)

\* parse_plan(text), text given by its lines
parse_plan(lines, singular) == ParseFrom(lines, 1, <<>>, <<>>, singular)

MaxLines == 4      \* lines of plan.txt

Header25 == <<"2", "5", " ">> \o January \o <<" ", "(", "2", " ">> \o Lecture \o <<"s", ")">>

\* the lines a plan.txt is made of: a blank and a white line, a title, the
\* header "25 January (2 lectures)" indented, the header
\* "26 january(1 lecture) x" (singular: a header for main_final.py only),
\* the lectures "A" and " B ", and "125 January (2 lectures)", no header
PlanLines ==
    {<<>>,
     <<" ", "\t">>,
     <<"S", "t", "u", "d", "y", " ", "P", "l", "a", "n", " ", "x">>,
     <<" ">> \o Header25,
     <<"2", "6", " ", "j", "a", "n", "u", "a", "r", "y", "(", "1", " ">> \o Lecture
        \o <<")", " ", "x">>,
     <<"A">>,
     <<" ", "B", " ">>,
     <<"1">> \o Header25}

InitParse ==
    /\ text \in BoundedSeqs(PlanLines, MaxLines)
    /\ parsed = <<>>
    /\ IdleTime /\ IdleLecture /\ IdleView /\ IdleSession /\ IdleTracker
    /\ PlanningIdle
    /\ raised = ""
    /\ pc = "call"

\* base_plan = parse_plan(raw_text) in main_final.py
ParsePlanFinal ==
    /\ pc = "call"
    /\ parsed' = parse_plan(text, TRUE)
    /\ pc' = "main_final"
    /\ UNCHANGED <<planVars, timeVars, lectureVars, viewVars, sessionVars, trackerVars, text, raised>>

\* self.plan = parse_plan(text) in main_ui.py
ParsePlanUI ==
    /\ pc = "call"
    /\ parsed' = parse_plan(text, FALSE)
    /\ pc' = "main_ui"
    /\ UNCHANGED <<planVars, timeVars, lectureVars, viewVars, sessionVars, trackerVars, text, raised>>

NextParse == ParsePlanFinal \/ ParsePlanUI

SpecParse == InitParse /\ [][NextParse]_vars

\* the trimmed lines of the text, blank ones left out
Trimmed == SelectSeq([i \in 1..Len(text) |-> Strip(text[i])], LAMBDA l : l # <<>>)

IsHeader(line) == MatchHeader(line, pc = "main_final").ok

\* the items of the text: the trimmed lines behind the first day header
\* that are neither day headers nor title lines
Items ==
    LET heads == {i \in 1..Len(Trimmed) : IsHeader(Trimmed[i])}
    IN  IF heads = {} THEN <<>>
        ELSE LET first == CHOOSE i \in heads : \A k \in heads : i <= k
             IN  SelectSeq(SubSeq(Trimmed, first + 1, Len(Trimmed)),
                           LAMBDA l : ~IsHeader(l) /\ ~IsTitle(l))

\* C14: the lecture lists of the parsed days, concatenated in day order,
\* are the items of the text in text order, so the lengths of the lists sum
\* to the number of items
C14_ParseKeepsItems ==
    pc \in {"main_final", "main_ui"} =>
        /\ AllLectures(parsed) = Items
        /\ SumOver([i \in 1..Len(parsed) |-> Len(parsed[i].lectures)], Len(parsed)) = Len(Items)

----------------------------------------------------------------------------
(* Further properties of the redistributions                               *)

\* C15: the plan returned by redistribute_to_25_27_without_completed has no
\* day with an empty lecture list: a target day is in it only with a
\* lecture, and another day of the base plan only with a completed lecture
C15_NoEmptyDay ==
    pc = "done" =>
        /\ \A i \in 1..Len(redist) : redist[i].lectures # <<>> /\ redist[i].count >= 1
        /\ \A d \in Range(TargetDays) :
              (Assigned(d) = <<>> /\ \A l \in Range(LecturesOn(base_plan, d)) :
                                        ~HasFinishedRecord(l))
                  => ~HasDay(redist, d)
        /\ \A d \in Range(DaysOf(base_plan)) \ Range(TargetDays) :
              (\A l \in Range(LecturesOn(base_plan, d)) : ~HasFinishedRecord(l))
                  => ~HasDay(redist, d)

\* one unfinished lecture under 18 January: the result has 25 January only
C15_Witness ==
    /\ pc = "done"
    /\ LecturesOn(base_plan, "18 January") # <<>>
    /\ HasDay(base_plan, "25 January")
    /\ DaysOf(redist) = <<"25 January">>
    /\ Len(redist[1].lectures) = 1


\* C16: redistribute_to_days called with end_day < start_day raises an error
\* that reaches the caller and binds no plan, not even a partial one; the
\* base plan is left as it was, and a call with start_day <= end_day raises
\* nothing
C16_InvalidRangeRaises ==
    [][pc = "call" =>
          IF end_day < start_day
            THEN /\ pc' = "raised"
                 /\ raised' = "ZeroDivisionError"
                 /\ days_plan' = <<>>
                 /\ base_plan' = base_plan
            ELSE /\ pc' = "done"
                 /\ raised' = ""]_vars

C16_Witness ==
    /\ pc = "raised"
    /\ raised = "ZeroDivisionError"
    /\ end_day = start_day - 1
    /\ LecturesFrom(base_plan, 1) # <<>>
    /\ total_lectures > 0
    /\ days_plan = <<>>

----------------------------------------------------------------------------
(* Sessions on the state file (main_final.py)                              *)
(*                                                                         *)
(* Every run of the script loads the state file, builds current_plan and   *)
(* then either ends or runs the handler of the button that was pressed;    *)
(* a handler changes the document in memory, saves it and asks for a new   *)
(* run.  Two browser sessions run the script independently on one file.    *)

Sessions == {1, 2}

MaxSessionEdits == 1   \* entries of the override logs of a saved document: a handler
                       \* runs when the document it saves has no more than these

\* contents of the state file
Absent == [kind |-> "absent"]

Invalid == [kind |-> "invalid"]

Json(doc) == [kind |-> "json", doc |-> doc]

\* json.load's error let through to the caller
LoadStateStrict(f) ==
    IF f.kind = "absent" THEN [raised |-> "", value |-> EmptyDoc]
    ELSE IF f.kind = "json" THEN [raised |-> "", value |-> f.doc]
    ELSE [raised |-> "JSONDecodeError", value |-> EmptyDoc]

\* load_state(): {} when the file does not exist, {} from the except branch
\* when json.load fails, the parsed document otherwise
load_state(f) ==
    IF f.kind = "absent" THEN [raised |-> "", value |-> EmptyDoc]
    ELSE IF f.kind = "json" THEN [raised |-> "", value |-> f.doc]
    ELSE [raised |-> "", value |-> EmptyDoc]

TwoDigits(n) == <<Digits[(n \div 10) + 1], Digits[(n % 10) + 1]>>

\* t.strftime("%H:%M")
Strftime(t) == TwoDigits(t.hour) \o <<":">> \o TwoDigits(t.minute)

\* the loop of save_state: start and end that are time objects become strings
NormalizeRecord(info) ==
    [k \in DOMAIN info |->
        IF k \in {"start", "end"} /\ info[k].kind = "time"
        THEN Str(Strftime(info[k].time))
        ELSE info[k]]

NormalizeTimes(doc) ==
    [day \in DOMAIN doc |->
        IF day = "overrides" THEN doc[day]
        ELSE [lec \in DOMAIN doc[day] |-> NormalizeRecord(doc[day][lec])]]

\* open(STATE_FILE, "x"): the file is written only when there is none yet
SaveStateExclusive(f, doc) ==
    LET normalized == NormalizeTimes(doc)
    IN  [file |-> IF f.kind = "absent" THEN Json(normalized) ELSE f,
         state |-> normalized]

\* save_state(state): the document, normalised in place, replaces whatever
\* the file held
save_state(f, doc) ==
    LET normalized == NormalizeTimes(doc)
    IN  [file |-> Json(normalized), state |-> normalized]

\* the record the Add Lecture handler and the render loop insert
DefaultRecordFinal(day) ==
    [study |-> FALSE, exam |-> FALSE, notes |-> "",
     start |-> Str(<<"0", "0", ":", "0", "0">>), end |-> Str(<<"0", "0", ":", "0", "0">>),
     link |-> "", completed_on |-> "None", assigned_day |-> day]

\* state.setdefault(day, {})
RecordsOf(doc, day) == IF day \in DOMAIN doc THEN doc[day] ELSE EmptyDoc

\* current_plan = merge_plan(redistribute_to_25_27_without_completed(base_plan, state), state)
CurrentPlan(bp, doc) ==
    LET r == MergePlan(AllocPlan(RedistributeTo25_27(bp, doc)), BaseRef, doc)
    IN  DerefPlan(r.store, r.ref)

\* the body of  if st.sidebar.button("Add Lecture")  up to save_state
AddLectureHandler(doc, add_day, lec) ==
    LET logged == LogAdd(doc, add_day, lec)
    IN  SetKey(logged, add_day,
               SetKey(RecordsOf(logged, add_day), lec, DefaultRecordFinal(add_day)))

\* the body of  if st.sidebar.button("Remove")  up to save_state
RemoveHandler(doc, remove_day, to_remove) ==
    LET logged == LogRemove(doc, remove_day, to_remove)
    IN  IF remove_day \in DOMAIN logged /\ to_remove \in DOMAIN logged[remove_day]
        THEN SetKey(logged, remove_day,
                    [l \in DOMAIN logged[remove_day] \ {to_remove} |-> logged[remove_day][l]])
        ELSE logged

\* one pass of the render loop: the lecture gets its record (a default one
\* if it has none) and its start and end as the time inputs give them back
RenderLecture(doc, day, lecture) ==
    LET recs == RecordsOf(doc, day)
        rec  == IF lecture \in DOMAIN recs THEN recs[lecture] ELSE DefaultRecordFinal(day)
    IN  SetKey(doc, day, SetKey(recs, lecture, RenderStartEnd(rec).lec_state))

\* the render loop over the first k lectures of the selected day (the
\* document after k - 1 lectures is a value before the k-th is rendered)
RECURSIVE RenderUpTo(_, _, _, _)
RenderUpTo(doc, day, lectures, k) ==
    IF k = 0 THEN doc
    ELSE RenderLecture(CHOOSE d \in {RenderUpTo(doc, day, lectures, k - 1)} : TRUE,
                       day, lectures[k])

\* lec_state.get("assigned_day", selected_day) of a lecture that was rendered
CurrentAssigned(rendered, day, lecture) ==
    LET rec == rendered[day][lecture]
    IN  IF "assigned_day" \in DOMAIN rec THEN rec["assigned_day"] ELSE day

\* the body of  if new_day != current_assigned  up to save_state
MoveHandler(rendered, day, lecture, new_day) ==
    LET rec   == rendered[day][lecture]
        moved == SetKey(rendered, day,
                        SetKey(rendered[day], lecture, SetKey(rec, "assigned_day", new_day)))
    IN  LogMove(moved, lecture, new_day)

\* entries of the three override logs of a document
RECURSIVE EntriesOf(_)
EntriesOf(log) ==
    IF log = <<>> THEN 0 ELSE Len(Head(log).value) + EntriesOf(Tail(log))

LogSize(doc) ==
    EntriesOf(GetLog(OverridesOf(doc), "add")) + EntriesOf(GetLog(OverridesOf(doc), "remove"))
        + Len(GetLog(OverridesOf(doc), "move"))

\* plan.txt as parsed: one lecture each under an early day and a target day
SessionOutlines == {Outline(<<"A", "B">>, 1)}

\* names typed into "Lecture name", stripped
NewLectures == {"X"}

\* the days picked in "To day" and "From day"
SidebarDays == {"25 January"}

\* a state file that does not exist, one that is not JSON, and the documents
\* {} and {"overrides": {}}
StartFiles == {Absent, Invalid, Json(EmptyDoc), Json(SetKey(EmptyDoc, "overrides", EmptyDoc))}

NoEdit == <<"none">>

AtStart == [at |-> "idle", doc |-> EmptyDoc, plan |-> <<>>, edit |-> NoEdit]

SetSession(i, r) == [j \in Sessions |-> IF j = i THEN r ELSE session[j]]

InitSession ==
    /\ base_plan \in SessionOutlines
    /\ file \in StartFiles
    /\ session = [i \in Sessions |-> AtStart]
    /\ state = EmptyDoc
    /\ Idle
    /\ redist = <<>>
    /\ days_plan = <<>>
    /\ start_day = 0
    /\ end_day = 0
    /\ total_lectures = 0
    /\ IdleTime /\ IdleLecture /\ IdleView /\ IdleParse /\ IdleTracker
    /\ raised = ""
    /\ pc = "sessions"

sessionIdle ==
    UNCHANGED <<base_plan, state, store, merged_ref, after_add, after_remove, redist,
                days_plan, start_day, end_day, total_lectures, pc,
                timeVars, lectureVars, viewVars, parseVars, trackerVars>>

\* a run starts: state = load_state() and current_plan is built; an
\* exception would end the run
StartRun(i) ==
    /\ session[i].at = "idle"
    /\ \E r \in {load_state(file)} :
          /\ raised' = r.raised
          /\ IF r.raised = ""
               THEN session' = SetSession(i, [at |-> "loaded", doc |-> r.value,
                                              plan |-> CurrentPlan(base_plan, r.value),
                                              edit |-> NoEdit])
               ELSE session' = SetSession(i, [at |-> "failed", doc |-> EmptyDoc,
                                              plan |-> <<>>, edit |-> NoEdit])
    /\ UNCHANGED file
    /\ sessionIdle

\* the handler's document is saved and st.rerun() ends the run, and with it
\* the document and the plan of the run; the session remembers the button
SaveAndRerun(i, doc, edit) ==
    \E w \in {save_state(file, doc)} :
        /\ file' = w.file
        /\ session' = SetSession(i, [at |-> "idle", doc |-> EmptyDoc,
                                     plan |-> <<>>, edit |-> edit])

\* "Add Lecture" pressed with a name typed in
AddLecture(i) ==
    /\ session[i].at = "loaded"
    /\ LogSize(session[i].doc) < MaxSessionEdits
    /\ \E add_day \in Range(DaysOf(session[i].plan)) \cap SidebarDays, lec \in NewLectures :
          \E doc \in {AddLectureHandler(session[i].doc, add_day, lec)} :
              SaveAndRerun(i, doc, <<"add", add_day, lec>>)
    /\ UNCHANGED raised
    /\ sessionIdle

\* "Remove" pressed for a lecture of a day of current_plan
RemoveLecture(i) ==
    /\ session[i].at = "loaded"
    /\ LogSize(session[i].doc) < MaxSessionEdits
    /\ \E remove_day \in Range(DaysOf(session[i].plan)) \cap SidebarDays :
          \E to_remove \in Range(LecturesOn(session[i].plan, remove_day)) :
              \E doc \in {RemoveHandler(session[i].doc, remove_day, to_remove)} :
                  SaveAndRerun(i, doc, <<"remove", remove_day, to_remove>>)
    /\ UNCHANGED raised
    /\ sessionIdle

\* another day picked in "Move to day" of a lecture of the selected day: the
\* lectures listed before it have been rendered by then
MoveToDay(i) ==
    /\ session[i].at = "loaded"
    /\ \E day \in Range(DaysOf(session[i].plan)) :
          \E lectures \in {LecturesOn(session[i].plan, day)} :
              \E k \in 1..Len(lectures) :
                  /\ \/ LogSize(session[i].doc) < MaxSessionEdits
                     \/ HasKey(GetLog(OverridesOf(session[i].doc), "move"), lectures[k])
                  /\ \E rendered \in {RenderUpTo(session[i].doc, day, lectures, k)} :
                        \E new_day \in Range(DaysOf(session[i].plan))
                                          \ {CurrentAssigned(rendered, day, lectures[k])} :
                            \E doc \in {MoveHandler(rendered, day, lectures[k], new_day)} :
                                SaveAndRerun(i, doc, <<"move", day, lectures[k], new_day>>)
    /\ UNCHANGED raised
    /\ sessionIdle

\* the run ends with no button pressed: nothing is saved, and the document
\* and the plan of the run are gone with it
EndRun(i) ==
    /\ session[i].at = "loaded"
    /\ session' = SetSession(i, AtStart)
    /\ UNCHANGED <<file, raised>>
    /\ sessionIdle

NextSession ==
    \E i \in Sessions :
        StartRun(i) \/ AddLecture(i) \/ RemoveLecture(i) \/ MoveToDay(i) \/ EndRun(i)

SpecSession == InitSession /\ [][NextSession]_vars

----------------------------------------------------------------------------
(* Properties of the sessions                                              *)

AddLogOf(doc) == GetLog(OverridesOf(doc), "add")

RemoveLogOf(doc) == GetLog(OverridesOf(doc), "remove")

MoveLogOf(doc) == GetLog(OverridesOf(doc), "move")

\* session i runs a handler in this step: it was past load_state and is
\* back at the start with a button remembered
Saves(i) ==
    /\ session[i].at = "loaded"
    /\ session'[i].at = "idle"
    /\ session'[i].edit # NoEdit

\* every list of the log is still there and starts with what it held
ListsKept(old, new) ==
    \A n \in 1..Len(old) :
        /\ HasKey(new, old[n].key)
        /\ Len(Lookup(new, old[n].key)) >= Len(old[n].value)
        /\ SubSeq(Lookup(new, old[n].key), 1, Len(old[n].value)) = old[n].value

\* every lecture of the move log still has its destination
MovesKept(old, new) ==
    \A n \in 1..Len(old) : HasKey(new, old[n].key) /\ Lookup(new, old[n].key) = old[n].value

\* C17: a handler leaves every entry that the add, remove and move logs of
\* its session's document held in place and unchanged in the document it
\* saves, and the saved logs hold exactly one entry more
C17_OverridesOnlyGrow ==
    [][\A i \in Sessions :
          Saves(i) =>
              /\ ListsKept(AddLogOf(session[i].doc), AddLogOf(file'.doc))
              /\ ListsKept(RemoveLogOf(session[i].doc), RemoveLogOf(file'.doc))
              /\ MovesKept(MoveLogOf(session[i].doc), MoveLogOf(file'.doc))
              /\ LogSize(file'.doc) = LogSize(session[i].doc) + 1]_vars

\* the document holds no override: it has no "overrides" key, or its
\* overrides have none of the three logs
NoOverrides(doc) ==
    \/ "overrides" \notin DOMAIN doc
    \/ DOMAIN doc["overrides"] \cap {"add", "remove", "move"} = {}

\* merge_plan(p, doc), as a value
Merged(p, doc) ==
    LET r == MergePlan(AllocPlan(p), BaseRef, doc)
    IN  DerefPlan(r.store, r.ref)

\* C18: a run that finds the state file absent or not valid JSON goes on
\* with the empty document and raises nothing; merge_plan with a loaded
\* document that holds no override gives back the days and the lecture
\* lists of the plan it is given, for the plan of the run and for every
\* bounded plan
C18_MissingStateIsEmpty ==
    [][\A i \in Sessions :
          (session[i].at = "idle" /\ session'[i].at # "idle") =>
              /\ file.kind \in {"absent", "invalid"} =>
                    /\ session'[i].at = "loaded"
                    /\ session'[i].doc = EmptyDoc
                    /\ raised' = ""
              /\ (session'[i].at = "loaded" /\ NoOverrides(session'[i].doc)) =>
                    /\ LecturesByDay(session'[i].plan)
                          = LecturesByDay(RedistributeTo25_27(base_plan, session'[i].doc))
                    /\ \A p \in MergeInputs :
                          LecturesByDay(Merged(p, session'[i].doc)) = LecturesByDay(p)]_vars

C18_Witness ==
    /\ file = Invalid
    /\ session[1].at = "loaded"
    /\ session[1].doc = EmptyDoc
    /\ LecturesByDay(session[1].plan)
          = <<[day |-> "25 January", lectures |-> <<"A">>],
              [day |-> "26 January", lectures |-> <<"B">>]>>
    /\ raised = ""

\* the document a session holds when its handler calls save_state
EditedDocument(doc, p, edit) ==
    IF edit[1] = "add" THEN AddLectureHandler(doc, edit[2], edit[3])
    ELSE IF edit[1] = "remove" THEN RemoveHandler(doc, edit[2], edit[3])
    ELSE LET lectures == LecturesOn(p, edit[2])
             k == CHOOSE n \in 1..Len(lectures) :
                      /\ lectures[n] = edit[3]
                      /\ \A m \in 1..(n - 1) : lectures[m] # edit[3]
         IN  MoveHandler(RenderUpTo(doc, edit[2], lectures, k), edit[2], edit[3], edit[4])

\* the entry a button leaves in the override logs
EntryOf(edit) == IF edit[1] = "move" THEN <<"move", edit[3], edit[4]>> ELSE edit

\* the override logs of the document hold the entry
Logged(doc, entry) ==
    IF entry[1] = "add" THEN InSeq(entry[3], LoggedUnder(AddLogOf(doc), entry[2]))
    ELSE IF entry[1] = "remove" THEN InSeq(entry[3], LoggedUnder(RemoveLogOf(doc), entry[2]))
    ELSE HasKey(MoveLogOf(doc), entry[2]) /\ Lookup(MoveLogOf(doc), entry[2]) = entry[3]

\* C20: when a session saves, the file becomes that session's whole
\* document, whatever it held; an entry that the other session saved after
\* this one had loaded, and that differs from this one's, is gone from it
C20_LastWriteWins ==
    [][\A i \in Sessions :
          Saves(i) =>
              /\ \E doc \in {EditedDocument(session[i].doc, session[i].plan, session'[i].edit)} :
                    file' = Json(NormalizeTimes(doc))
              /\ \A j \in Sessions \ {i} :
                    (/\ session[j].at = "idle"
                     /\ session[j].edit # NoEdit
                     /\ EntryOf(session[j].edit) # EntryOf(session'[i].edit)
                     /\ file.kind = "json"
                     /\ Logged(file.doc, EntryOf(session[j].edit))
                     /\ ~Logged(session[i].doc, EntryOf(session[j].edit)))
                        => ~Logged(file'.doc, EntryOf(session[j].edit))]_vars

\* both sessions loaded the file before either saved; the first added X,
\* the second removed A, and the file holds the removal only
C20_Witness ==
    /\ session[1].at = "idle" /\ session[1].edit = <<"add", "25 January", "X">>
    /\ session[2].at = "idle" /\ session[2].edit = <<"remove", "25 January", "A">>
    /\ file.kind = "json"
    /\ Logged(file.doc, <<"remove", "25 January", "A">>)
    /\ ~Logged(file.doc, <<"add", "25 January", "X">>)
    /\ "X" \notin DOMAIN RecordsOf(file.doc, "25 January")

----------------------------------------------------------------------------
(* Conservation of the labels by redistribute_to_25_27_without_completed   *)

\* C26: each label occurs in the plan returned by
\* redistribute_to_25_27_without_completed as many times as in the base
\* plan, also when two days of the base plan hold the same label, so both
\* plans hold the same number of lectures
C26_LabelsConserved ==
    pc = "done" =>
        /\ \A l \in Range(LecturesFrom(base_plan, 1)) \cup Range(LecturesFrom(redist, 1)) :
              Occurrences(l, LecturesFrom(redist, 1))
                  = Occurrences(l, LecturesFrom(base_plan, 1))
        /\ Len(LecturesFrom(redist, 1)) = Len(LecturesFrom(base_plan, 1))

----------------------------------------------------------------------------
(* load_routine (test.py, test_v3.py)                                      *)
(*                                                                         *)
(* json.load builds the document as a dict object; load_routine stores     *)
(* references into that object, so the dicts are kept in a heap and an     *)
(* item's value is either a reference to a dict of the heap or the value   *)
(* json.load parsed (the values under the top-level keys are only read).   *)

MaxDates == 2      \* entries of a routines map

Ref(r) == [kind |-> "ref", ref |-> r]

Val(v) == [kind |-> "val", val |-> v]

\* a file holding a JSON array
JsonList == [kind |-> "list"]

\* {"routines": {}, "habits": {}}
FreshDocument ==
    [raised |-> "", root |-> 1,
     heap |-> << <<[key |-> "routines", value |-> Ref(2)],
                   [key |-> "habits", value |-> Ref(3)]>>, <<>>, <<>> >>]

\* json.load of an object: the top-level dict with the parsed values
JsonLoad(doc) == [i \in 1..Len(doc) |-> [key |-> doc[i].key, value |-> Val(doc[i].value)]]

\* the backward-compatibility lines on the dict json.load returned
Migrate(top) ==
    LET with_routines == IF HasKey(top, "routines") THEN top
                         ELSE Append(top, [key |-> "routines", value |-> Ref(1)])
    IN  IF HasKey(with_routines, "habits")
        THEN [raised |-> "", root |-> 1, heap |-> <<with_routines>>]
        ELSE [raised |-> "", root |-> 1,
              heap |-> <<Append(with_routines, [key |-> "habits", value |-> Ref(2)]), <<>> >>]

\* load_routine(): the fresh document when the file does not exist or the
\* try block raises (json.load fails; item assignment on a list raises
\* TypeError), the migrated document otherwise
load_routine(f) ==
    IF f.kind = "absent" THEN FreshDocument
    ELSE IF f.kind = "json" THEN Migrate(JsonLoad(f.doc))
    ELSE FreshDocument

\* the dict an item of the returned document refers to
DictAt(d, k) ==
    LET v == Lookup(d.heap[d.root], k)
    IN  IF v.kind = "ref" THEN d.heap[v.ref] ELSE v.val

RoutineDates == {"2026-01-20", "2026-01-21", "2026-01-22"}

\* the activities of a date
DayRoutines == {<<>>, <<[key |-> "Gym", value |-> [completed |-> FALSE]]>>}

\* ordered dicts of at most n items with distinct keys
DictsOf(K, V, n) ==
    {d \in UNION {[1..k -> [key : K, value : V]] : k \in 0..n} :
        \A i, j \in 1..Len(d) : i # j => d[i].key # d[j].key}

\* the legacy documents: date -> activities at the top level
LegacyDocuments == DictsOf(RoutineDates, DayRoutines, MaxDates)

HabitMaps == {<<>>, <<[key |-> "Read", value |-> [frequency |-> "Daily"]]>>}

\* documents as save_routine writes them, and ones lacking "habits"
RoutineDocuments ==
    {<<[key |-> "routines", value |-> r], [key |-> "habits", value |-> h]>> :
        r \in LegacyDocuments, h \in HabitMaps}
      \cup {<<[key |-> "routines", value |-> r]>> : r \in LegacyDocuments}

RoutineFiles ==
    {Absent, Invalid, JsonList} \cup {Json(doc) : doc \in LegacyDocuments \cup RoutineDocuments}

InitRoutine ==
    /\ routine_file \in RoutineFiles
    /\ data = <<>>
    /\ clock = 0 /\ run = <<>> /\ rendered_at = <<>> /\ habit = <<>> /\ streaks = <<>>
    /\ base_plan = <<>>
    /\ state = EmptyDoc
    /\ Idle
    /\ redist = <<>>
    /\ days_plan = <<>>
    /\ start_day = 0
    /\ end_day = 0
    /\ total_lectures = 0
    /\ IdleTime /\ IdleLecture /\ IdleView /\ IdleParse /\ IdleSession
    /\ raised = ""
    /\ pc = "call"

\* data = load_routine()
LoadRoutine ==
    /\ pc = "call"
    /\ \E r \in {load_routine(routine_file)} :
          /\ raised' = r.raised
          /\ data' = [root |-> r.root, heap |-> r.heap]
    /\ pc' = "done"
    /\ UNCHANGED <<base_plan, state, store, merged_ref, after_add, after_remove, redist,
                   days_plan, start_day, end_day, total_lectures,
                   timeVars, lectureVars, viewVars, parseVars, sessionVars,
                   routine_file, clock, run, rendered_at, habit, streaks>>

NextRoutine == LoadRoutine

SpecRoutine == InitRoutine /\ [][NextRoutine]_vars

\* the file holds a legacy document: an object of dates, no "routines" key
IsLegacy(f) == f.kind = "json" /\ f.doc \in LegacyDocuments

\* C29: load_routine on a legacy document (dates at the top level, no
\* "routines" key) returns a document whose "routines" map has exactly the
\* entries of the legacy document, so no "routines" or "habits" entry, and
\* whose "habits" map is empty
C29_LegacyMigration ==
    (pc = "done" /\ IsLegacy(routine_file)) =>
        /\ raised = ""
        /\ Keys(DictAt(data, "routines")) = Keys(routine_file.doc)
        /\ \A k \in Range(Keys(routine_file.doc)) :
              Lookup(DictAt(data, "routines"), k).val = Lookup(routine_file.doc, k)
        /\ ~HasKey(DictAt(data, "routines"), "routines")
        /\ ~HasKey(DictAt(data, "routines"), "habits")
        /\ DictAt(data, "habits") = <<>>

----------------------------------------------------------------------------
(* Habit streaks (test.py lines 353-385, test_v3.py lines 446-478)         *)
(*                                                                         *)
(* A date is the number of its day: date.isoformat() gives zero-padded     *)
(* text of one width, which sorted() orders as the days are ordered.       *)

MaxEntries == 3    \* entries of a habit's completions log

LastDay == 4

\* sorted(keys, reverse=True)
RECURSIVE SortedReverse(_)
SortedReverse(S) ==
    IF S = {} THEN <<>>
    ELSE LET m == CHOOSE x \in S : \A y \in S : y <= x
         IN  <<m>> \o SortedReverse(S \ {m})

\* the loop over dates: [streak, longest, current] after the dates given
RECURSIVE StreakLoop(_, _, _, _, _)
StreakLoop(completions, dates, today_str, checked, acc) ==
    IF dates = <<>> THEN acc
    ELSE LET dd == Head(dates)
             current == IF Lookup(completions, dd) THEN acc.current + 1 ELSE 0
             longest == IF Lookup(completions, dd) /\ current > acc.longest
                        THEN current ELSE acc.longest
             streak  == IF dd = today_str /\ checked THEN current ELSE acc.streak
         IN  StreakLoop(completions, Tail(dates), today_str, checked,
                        [streak |-> streak, longest |-> longest, current |-> current])

\* Streak calculation
StreakCalculation(completions, today_str, checked) ==
    StreakLoop(completions, SortedReverse(Range(Keys(completions))), today_str, checked,
               [streak |-> 0, longest |-> 0, current |-> 0])

\* hinfo["completions"].get(today_str, False)
CompToday(completions, today_str) ==
    IF HasKey(completions, today_str) THEN Lookup(completions, today_str) ELSE FALSE

\* the logs the checkbox can have written by today: one entry per day on
\* which the box was changed, in the order of the days
RECURSIVE LogOver(_, _)
LogOver(days, ticked) ==
    IF days = {} THEN <<>>
    ELSE LET m == CHOOSE x \in days : \A y \in days : x <= y
         IN  <<[key |-> m, value |-> m \in ticked]>> \o LogOver(days \ {m}, ticked)

CompletionLogs(today_str) ==
    {LogOver(days, ticked) :
        days \in {D \in SUBSET (1..today_str) : Cardinality(D) <= MaxEntries},
        ticked \in SUBSET (1..today_str)}

InitHabit ==
    /\ \E today_str \in 1..LastDay, checked \in BOOLEAN :
          \E completions \in CompletionLogs(today_str) :
              habit = [completions |-> completions, today_str |-> today_str,
                       checked |-> checked]
    /\ streaks = <<>>
    /\ routine_file = <<>> /\ data = <<>> /\ clock = 0 /\ run = <<>> /\ rendered_at = <<>>
    /\ base_plan = <<>>
    /\ state = EmptyDoc
    /\ Idle
    /\ redist = <<>>
    /\ days_plan = <<>>
    /\ start_day = 0
    /\ end_day = 0
    /\ total_lectures = 0
    /\ IdleTime /\ IdleLecture /\ IdleView /\ IdleParse /\ IdleSession
    /\ raised = ""
    /\ pc = "call"

habitIdle ==
    UNCHANGED <<base_plan, state, store, merged_ref, after_add, after_remove, redist,
                days_plan, start_day, end_day, total_lectures, raised,
                timeVars, lectureVars, viewVars, parseVars, sessionVars,
                routine_file, data, clock, run, rendered_at>>

\* the box differs from the log: hinfo["completions"][today_str] = checked,
\* save_routine and st.rerun()
CheckToday ==
    /\ pc = "call"
    /\ habit.checked # CompToday(habit.completions, habit.today_str)
    /\ habit' = [habit EXCEPT !.completions = Assign(@, habit.today_str, habit.checked)]
    /\ UNCHANGED <<pc, streaks>>
    /\ habitIdle

\* the box agrees with the log: the streaks are computed and shown
ShowStreaks ==
    /\ pc = "call"
    /\ habit.checked = CompToday(habit.completions, habit.today_str)
    /\ \E r \in {StreakCalculation(habit.completions, habit.today_str, habit.checked)} :
          streaks' = [streak |-> r.streak, longest |-> r.longest]
    /\ pc' = "done"
    /\ UNCHANGED habit
    /\ habitIdle

NextHabit == CheckToday \/ ShowStreaks

SpecHabit == InitHabit /\ [][NextHabit]_vars

\* entries i..j of the log are all completed
AllCompleted(log, i, j) == \A k \in i..j : log[k].value

\* the completed entries that end the log, walking back from its last one
RunEndingAt(log, j) ==
    CHOOSE n \in 0..j :
        /\ AllCompleted(log, j - n + 1, j)
        /\ n < j => ~log[j - n].value

LongestRun(log) ==
    CHOOSE n \in 0..Len(log) :
        /\ \E i \in 1..(Len(log) + 1) : i + n - 1 <= Len(log) /\ AllCompleted(log, i, i + n - 1)
        /\ \A i, j \in 1..Len(log) : AllCompleted(log, i, j) => j - i + 1 <= n

\* C30: for a habit checked as completed today, the current streak shown is
\* the number of consecutive completed entries of the log that end at
\* today's entry, and the longest streak shown is the length of the longest
\* run of consecutive completed entries of the log
C30_StreaksFromLog ==
    (pc = "done" /\ habit.checked) =>
        /\ streaks.streak = RunEndingAt(habit.completions, Len(habit.completions))
        /\ streaks.longest = LongestRun(habit.completions)

\* the longest streak alone
LongestShown == pc = "done" => streaks.longest = LongestRun(habit.completions)

----------------------------------------------------------------------------
(* The activity timers of the routine tracker (test.py lines 86-275,       *)
(* test_v3.py lines 120-367)                                               *)
(*                                                                         *)
(* Every run of the script loads routine_state.json and renders the        *)
(* activities of the selected date in their order; a pressed button runs   *)
(* its handler inside the render of its activity, saves and asks for a new *)
(* run, so the activities after it are not rendered in that run.  Times    *)
(* are whole seconds.                                                      *)

MaxClock == 3      \* the clock runs from 0 to MaxClock

ActivityNames == {"Gym", "Read"}

\* selected_date.strftime("%Y-%m-%d")
DayStr == "2026-01-20"

Seconds(n) == [kind |-> "float", value |-> n]

\* save_routine(data): the whole document, timers with last_update
save_routine(doc) ==
    Json(<<[key |-> "routines", value |-> doc.routines],
           [key |-> "habits", value |-> doc.habits]>>)

\* data = load_routine(); routines = ...; habits = ...
LoadedDocument(f) ==
    LET r == load_routine(f)
    IN  [routines |-> DictAt(r, "routines"), habits |-> DictAt(r, "habits")]

\* day_routine = routines.setdefault(day_str, {})
DayRoutineOf(doc) ==
    IF HasKey(doc.routines, DayStr) THEN Lookup(doc.routines, DayStr) ELSE <<>>

WithDayRoutine(doc, day_routine) ==
    [doc EXCEPT !.routines = Assign(@, DayStr, day_routine)]

IdleTimer == [state |-> "idle", accumulated_seconds |-> 0, last_update |-> None]

\* the record "Add Activity" stores
NewActivity ==
    [completed |-> FALSE, notes |-> "", category |-> "Work",
     intervals |-> <<[start |-> "9:00 AM", end |-> "10:00 AM"]>>,
     logged_on |-> None, timer |-> IdleTimer]

\* day_routine[act] = {...}
AddActivityHandler(doc, act) ==
    WithDayRoutine(doc, Assign(DayRoutineOf(doc), act, NewActivity))

\* del day_routine[to_delete]
DeleteActivityHandler(doc, to_delete) ==
    WithDayRoutine(doc, SelectSeq(DayRoutineOf(doc), LAMBDA item : item.key # to_delete))

TimerOf(doc, act) == Lookup(DayRoutineOf(doc), act).timer

SetTimer(doc, act, timer) ==
    LET day_routine == DayRoutineOf(doc)
    IN  WithDayRoutine(doc, [day_routine EXCEPT ![KeyIndex(day_routine, act)].value.timer = timer])

\* delta = now - timer["last_update"]
Delta(timer, now) ==
    IF timer.state = "running" /\ timer.last_update.kind # "None"
    THEN now - timer.last_update.value ELSE 0

\* a render that counts one refresh interval at most
UpdateOneInterval(timer, now) ==
    IF timer.state = "running"
    THEN [timer EXCEPT !.accumulated_seconds =
                            @ + (IF Delta(timer, now) > 1 THEN 1 ELSE Delta(timer, now)),
                       !.last_update = Seconds(now)]
    ELSE timer

\* "Update if running": the timer after the Time Tracker block has read it
UpdateIfRunning(timer, now) ==
    IF timer.state = "running"
    THEN [timer EXCEPT !.accumulated_seconds = @ + Delta(timer, now),
                       !.last_update = Seconds(now)]
    ELSE timer

\* the render of activities from..to of the day with no button pressed:
\* the document, and whether save_routine was called
RECURSIVE RenderTimers(_, _, _, _)
RenderTimers(doc, from, to, now) ==
    IF from > to THEN [doc |-> doc, saved |-> FALSE]
    ELSE LET act  == DayRoutineOf(doc)[from].key
             rest == RenderTimers(SetTimer(doc, act, UpdateIfRunning(TimerOf(doc, act), now)),
                                  from + 1, to, now)
         IN  [doc |-> rest.doc,
              saved |-> rest.saved \/ TimerOf(doc, act).state = "running"]

\* Start from stopped begins at zero again
StartTimerFresh(timer, now) ==
    [state |-> "running", accumulated_seconds |-> 0, last_update |-> Seconds(now)]

\* "Start" and "Resume": timer["state"] = "running"; timer["last_update"] = time_mod.time()
StartTimer(timer, now) ==
    [timer EXCEPT !.state = "running", !.last_update = Seconds(now)]

\* Pause that leaves last_update as it is
HaltTimerKeepUpdate(timer, to) == [timer EXCEPT !.state = to]

\* "Pause" and "Stop": timer["state"] = to; timer["last_update"] = None
HaltTimer(timer, to) == [timer EXCEPT !.state = to, !.last_update = None]

\* "Reset Timer"
ResetTimer(timer) == IdleTimer

NoDocument == [routines |-> <<>>, habits |-> <<>>]

NoDelta == [a \in ActivityNames |-> 0]

BetweenRuns(pressed) ==
    [at |-> "idle", doc |-> NoDocument, act |-> 0, pressed |-> pressed, delta |-> NoDelta]

InitTimer ==
    /\ routine_file = Absent
    /\ clock = 0
    /\ run = BetweenRuns("none")
    /\ rendered_at = [a \in ActivityNames |-> None]
    /\ data = <<>> /\ habit = <<>> /\ streaks = <<>>
    /\ base_plan = <<>>
    /\ state = EmptyDoc
    /\ Idle
    /\ redist = <<>>
    /\ days_plan = <<>>
    /\ start_day = 0
    /\ end_day = 0
    /\ total_lectures = 0
    /\ IdleTime /\ IdleLecture /\ IdleView /\ IdleParse /\ IdleSession
    /\ raised = ""
    /\ pc = "tracker"

timerIdle ==
    UNCHANGED <<base_plan, state, store, merged_ref, after_add, after_remove, redist,
                days_plan, start_day, end_day, total_lectures, pc, raised,
                timeVars, lectureVars, viewVars, parseVars, sessionVars,
                data, habit, streaks>>

\* the deltas of the activities from..to of a document, rendered at now
DeltasOf(doc, from, to, now) ==
    [a \in ActivityNames |->
        IF \E i \in from..to : DayRoutineOf(doc)[i].key = a
        THEN Delta(TimerOf(doc, a), now) ELSE 0]

RenderedNow(doc, from, to) ==
    [a \in ActivityNames |->
        IF \E i \in from..to : DayRoutineOf(doc)[i].key = a
        THEN Seconds(clock) ELSE rendered_at[a]]

\* time passes with no run of the script: the page is open and still, or
\* the app is closed
Tick ==
    /\ run.at = "idle"
    /\ \E t \in (clock + 1)..MaxClock : clock' = t
    /\ UNCHANGED <<routine_file, run, rendered_at>>
    /\ timerIdle

\* "Add Activity" pressed with a name typed in
AddActivity ==
    /\ run.at = "idle"
    /\ \E act \in ActivityNames :
          \E doc \in {AddActivityHandler(LoadedDocument(routine_file), act)} :
              /\ routine_file' = save_routine(doc)
              /\ rendered_at' = [rendered_at EXCEPT ![act] = None]
    /\ run' = BetweenRuns("Add Activity")
    /\ UNCHANGED clock
    /\ timerIdle

\* "Delete Activity" pressed
DeleteActivity ==
    /\ run.at = "idle"
    /\ \E loaded \in {LoadedDocument(routine_file)} :
          \E to_delete \in Range(Keys(DayRoutineOf(loaded))) :
              /\ routine_file' = save_routine(DeleteActivityHandler(loaded, to_delete))
              /\ rendered_at' = [rendered_at EXCEPT ![to_delete] = None]
    /\ run' = BetweenRuns("Delete Activity")
    /\ UNCHANGED clock
    /\ timerIdle

\* a run renders the activities up to the Time Tracker of the k-th one
RenderTo ==
    /\ run.at = "idle"
    /\ \E loaded \in {LoadedDocument(routine_file)} :
          \E k \in 1..Len(DayRoutineOf(loaded)) :
              \E r \in {RenderTimers(loaded, 1, k, clock)} :
                  /\ routine_file' = IF r.saved THEN save_routine(r.doc) ELSE routine_file
                  /\ run' = [at |-> "tracker", doc |-> r.doc, act |-> k, pressed |-> "none",
                             delta |-> DeltasOf(loaded, 1, k, clock)]
                  /\ rendered_at' = RenderedNow(loaded, 1, k)
    /\ UNCHANGED clock
    /\ timerIdle

\* save_routine(data); st.rerun() after a timer button
SaveTimer(timer, pressed) ==
    /\ routine_file' = save_routine(SetTimer(run.doc, DayRoutineOf(run.doc)[run.act].key, timer))
    /\ run' = BetweenRuns(pressed)
    /\ UNCHANGED <<clock, rendered_at>>
    /\ timerIdle

\* the timer whose buttons the run has reached
Shown == TimerOf(run.doc, DayRoutineOf(run.doc)[run.act].key)

Start ==
    /\ run.at = "tracker"
    /\ Shown.state \in {"idle", "stopped"}
    /\ SaveTimer(StartTimer(Shown, clock), "Start")

Pause ==
    /\ run.at = "tracker"
    /\ Shown.state = "running"
    /\ SaveTimer(HaltTimer(Shown, "paused"), "Pause")

Stop ==
    /\ run.at = "tracker"
    /\ Shown.state \in {"running", "paused"}
    /\ SaveTimer(HaltTimer(Shown, "stopped"), "Stop")

Resume ==
    /\ run.at = "tracker"
    /\ Shown.state = "paused"
    /\ SaveTimer(StartTimer(Shown, clock), "Resume")

Reset ==
    /\ run.at = "tracker"
    /\ SaveTimer(ResetTimer(Shown), "Reset Timer")

\* no button of the activity pressed: the run renders the other activities
\* and ends
FinishRun ==
    /\ run.at = "tracker"
    /\ \E r \in {RenderTimers(run.doc, run.act + 1, Len(DayRoutineOf(run.doc)), clock)} :
          /\ routine_file' = IF r.saved THEN save_routine(r.doc) ELSE routine_file
          /\ rendered_at' = RenderedNow(run.doc, run.act + 1, Len(DayRoutineOf(run.doc)))
    /\ run' = BetweenRuns("none")
    /\ UNCHANGED clock
    /\ timerIdle

NextTimer ==
    \/ Tick \/ AddActivity \/ DeleteActivity \/ RenderTo
    \/ Start \/ Pause \/ Stop \/ Resume \/ Reset \/ FinishRun

SpecTimer == InitTimer /\ [][NextTimer]_vars

----------------------------------------------------------------------------
(* Properties of the activity timers                                       *)

\* the document a run would load now
Persisted == LoadedDocument(routine_file)

HasActivity(doc, a) == HasKey(DayRoutineOf(doc), a)

\* the step renders the Time Tracker of activity a
RendersTimer(a) ==
    \/ /\ run.at = "idle" /\ run'.at = "tracker"
       /\ \E i \in 1..run'.act : DayRoutineOf(run'.doc)[i].key = a
    \/ /\ run.at = "tracker" /\ run'.at = "idle" /\ run'.pressed = "none"
       /\ \E i \in (run.act + 1)..Len(DayRoutineOf(run.doc)) : DayRoutineOf(run.doc)[i].key = a

\* the step is the handler of a timer button of activity a
Presses(button, a) ==
    /\ run.at = "tracker" /\ run'.at = "idle" /\ run'.pressed = button
    /\ DayRoutineOf(run.doc)[run.act].key = a

\* C21: a running timer counts the time during which nothing is rendered:
\* when an activity whose saved timer is running is rendered, its
\* accumulated_seconds grows by the whole time since its previous render,
\* however long ago that was, and last_update becomes the time of the render
C21_CountsAcrossClosure ==
    [][\A a \in ActivityNames :
          (RendersTimer(a) /\ TimerOf(Persisted, a).state = "running") =>
              /\ rendered_at[a].kind # "None"
              /\ TimerOf(LoadedDocument(routine_file'), a).accumulated_seconds
                    = TimerOf(Persisted, a).accumulated_seconds
                        + (clock - rendered_at[a].value)
              /\ TimerOf(LoadedDocument(routine_file'), a).last_update = Seconds(clock)]_vars

\* a render two seconds or more after the previous one has added them all
C21_Witness ==
    /\ run.at = "tracker"
    /\ \E a \in ActivityNames :
          /\ HasActivity(Persisted, a) /\ HasActivity(run.doc, a)
          /\ run.delta[a] >= 2
          /\ TimerOf(Persisted, a).state = "running"
          /\ TimerOf(Persisted, a).accumulated_seconds >= 2
          /\ TimerOf(Persisted, a).last_update = Seconds(clock)

TimersConsistent(doc) ==
    \A i \in 1..Len(DayRoutineOf(doc)) :
        LET timer == DayRoutineOf(doc)[i].value.timer
        IN  (timer.state = "running") <=> (timer.last_update.kind # "None")

\* C22: in the saved document and in the document of a run, a timer is
\* running exactly when its last_update is not null
C22_RunningIffUpdate ==
    /\ TimersConsistent(Persisted)
    /\ run.at = "tracker" => TimersConsistent(run.doc)

\* one timer running, another one paused after it has counted
C22_Witness ==
    \E a, b \in ActivityNames :
        /\ HasActivity(Persisted, a) /\ HasActivity(Persisted, b)
        /\ TimerOf(Persisted, a).state = "running"
        /\ TimerOf(Persisted, a).last_update.kind = "float"
        /\ TimerOf(Persisted, b).state = "paused"
        /\ TimerOf(Persisted, b).accumulated_seconds > 0
        /\ TimerOf(Persisted, b).last_update = None

\* C23: in a render or a timer action, the accumulated_seconds of a saved
\* timer changes only in a render that finds it running, by the time since
\* last_update, or by Reset, which makes it 0 and the timer idle; Pause,
\* Stop, Resume and Start leave it as it is
C23_IdleTimeNotCounted ==
    [][\A a \in ActivityNames :
          (/\ HasActivity(Persisted, a)
           /\ HasActivity(LoadedDocument(routine_file'), a)
           /\ run.at = "tracker" \/ run'.at = "tracker") =>
              \E before \in {TimerOf(Persisted, a)} :
              \E after \in {TimerOf(LoadedDocument(routine_file'), a)} :
                  /\ after.accumulated_seconds # before.accumulated_seconds =>
                        \/ /\ RendersTimer(a)
                           /\ before.state = "running"
                           /\ before.last_update.kind = "float"
                           /\ after.accumulated_seconds
                                 = before.accumulated_seconds + (clock - before.last_update.value)
                        \/ /\ Presses("Reset Timer", a)
                           /\ after.accumulated_seconds = 0
                           /\ after.state = "idle"
                  /\ (\E button \in {"Start", "Pause", "Stop", "Resume"} : Presses(button, a))
                        => after.accumulated_seconds = before.accumulated_seconds
                  /\ (RendersTimer(a) /\ before.state # "running")
                        => after = before]_vars

\* a timer that counted one second has been resumed at second 3
C23_Witness ==
    /\ run.at = "idle"
    /\ run.pressed = "Resume"
    /\ clock = 3
    /\ \E a \in ActivityNames :
          /\ HasActivity(Persisted, a)
          /\ TimerOf(Persisted, a).state = "running"
          /\ TimerOf(Persisted, a).accumulated_seconds = 1
          /\ TimerOf(Persisted, a).last_update = Seconds(3)

----------------------------------------------------------------------------
(* The checklist of main_final.py, one browser session                     *)
(*                                                                         *)
(* A run loads the state file, builds current_plan, shows the statistics   *)
(* and renders the lectures of the selected day; the check boxes give back *)
(* what the user has set them to.  Only a handler saves: Add Lecture,      *)
(* Remove and Save All Progress before the lectures are rendered, Move to  *)
(* day and Save Lecture inside the render of their lecture.                *)

MaxPresses == 4          \* buttons pressed and days picked in one session of edits

MaxStamp == 1            \* minutes on the clock of datetime.now()

\* names typed into "Lecture name", stripped: a new one and a listed one
TypedLectures == {"A", "X"}

\* datetime.now().strftime("%Y-%m-%d %H:%M")
Stamp(now) == "2026-01-25 10:0" \o ToString(now)

\* not lec_state.get("completed_on")
NotCompletedOn(rec) ==
    ~("completed_on" \in DOMAIN rec) \/ rec["completed_on"] \in {"None", ""}

\* sum(day_info["count"] for day_info in current_plan.values())
RECURSIVE SumCounts(_)
SumCounts(plan) == IF plan = <<>> THEN 0 ELSE Head(plan).count + SumCounts(Tail(plan))

\* the records counted as completed: study and exam both set
CompletedRecords(doc) ==
    UNION {{<<day, lecture>> : lecture \in {l \in DOMAIN doc[day] :
                                               /\ GetFlag(doc[day][l], "study")
                                               /\ GetFlag(doc[day][l], "exam")}} :
           day \in DOMAIN doc \ {"overrides"}}

\* total_lectures and completed_count of the sidebar
Statistics(plan, doc) ==
    [total_lectures |-> SumCounts(plan), completed_count |-> Cardinality(CompletedRecords(doc))]

\* one pass of the render loop with the check boxes as the user left them
RenderLectureWith(doc, day, lecture, ticks) ==
    LET rendered == RenderLecture(doc, day, lecture)
        rec == rendered[day][lecture]
    IN  SetKey(rendered, day,
               SetKey(rendered[day], lecture,
                      SetKey(SetKey(rec, "study", ticks.study), "exam", ticks.exam)))

\* the render loop over the first k lectures of the selected day
RECURSIVE RenderWith(_, _, _, _, _)
RenderWith(doc, day, lectures, ticks, k) ==
    IF k = 0 THEN doc
    ELSE RenderLectureWith(CHOOSE d \in {RenderWith(doc, day, lectures, ticks, k - 1)} : TRUE,
                           day, lectures[k], ticks[k])

\* Save Lecture that stamps whenever both boxes are ticked
SaveLectureRestamp(rendered, day, lecture, now) ==
    LET rec == rendered[day][lecture]
    IN  IF rec["study"] /\ rec["exam"]
        THEN SetKey(rendered, day,
                    SetKey(rendered[day], lecture, SetKey(rec, "completed_on", Stamp(now))))
        ELSE rendered

\* the body of  if st.button("Save Lecture")  up to save_state
SaveLectureHandler(rendered, day, lecture, now) ==
    LET rec == rendered[day][lecture]
    IN  IF rec["study"] /\ rec["exam"] /\ NotCompletedOn(rec)
        THEN SetKey(rendered, day,
                    SetKey(rendered[day], lecture, SetKey(rec, "completed_on", Stamp(now))))
        ELSE rendered

\* what a run reads: the document and the plan built from it
Loaded == load_state(file).value

PlanOf(doc) == CurrentPlan(base_plan, doc)

\* the lectures 1..k of the day can be rendered without a move firing: the
\* day each is assigned to is one of the days offered
Offered(rendered, plan, day, lectures, k) ==
    \A j \in 1..k : CurrentAssigned(rendered, day, lectures[j]) \in Range(DaysOf(plan))

TickChoices(k) == [1..k -> [study : BOOLEAN, exam : BOOLEAN]]

\* the boxes as the document has them: value=lec_state.get("study", False)
StoredTicks(doc, day, lectures, k) ==
    [j \in 1..k |->
        LET rec == IF lectures[j] \in DOMAIN RecordsOf(doc, day)
                   THEN RecordsOf(doc, day)[lectures[j]] ELSE EmptyDoc
        IN  [study |-> GetFlag(rec, "study"), exam |-> GetFlag(rec, "exam")]]

\* both boxes of the k-th lecture ticked, the others as the document has them
TickedAt(doc, day, lectures, k) ==
    [j \in 1..k |-> IF j = k THEN [study |-> TRUE, exam |-> TRUE]
                             ELSE StoredTicks(doc, day, lectures, k)[j]]

\* history: the labels removed, and the (label, day) pairs added, that no
\* later Add Lecture, Remove or Move to day has named, and the number of
\* handlers that have run
Forget(pairs, lecture) == {p \in pairs : p[1] # lecture}

InitChecklist ==
    /\ base_plan \in SessionOutlines
    /\ file = Absent
    /\ session = [now |-> 0, removed |-> {}, added |-> {}, presses |-> 0]
    /\ state = EmptyDoc
    /\ Idle
    /\ redist = <<>>
    /\ days_plan = <<>>
    /\ start_day = 0
    /\ end_day = 0
    /\ total_lectures = 0
    /\ IdleTime /\ IdleLecture /\ IdleView /\ IdleParse /\ IdleTracker
    /\ raised = ""
    /\ pc = "checklist"

checklistIdle == sessionIdle /\ UNCHANGED raised

\* save_state(doc) at the end of a handler; the history is about the
\* lectures the handler names
Saved(doc, unnamed_removed, unnamed_added, counted) ==
    \E w \in {save_state(file, doc)} :
        /\ file' = w.file
        /\ session' = [session EXCEPT !.removed = unnamed_removed, !.added = unnamed_added,
                                      !.presses = counted]

\* a minute passes
MinutePasses ==
    /\ session.now < MaxStamp
    /\ session' = [session EXCEPT !.now = @ + 1]
    /\ UNCHANGED file
    /\ checklistIdle

PressAddLecture ==
    /\ session.presses < MaxPresses
    /\ \E add_day \in Range(DaysOf(PlanOf(Loaded))), lec \in TypedLectures :
          Saved(AddLectureHandler(Loaded, add_day, lec),
                        session.removed \ {lec},
                        Forget(session.added, lec) \cup {<<lec, add_day>>}, session.presses + 1)
    /\ checklistIdle

PressRemove ==
    /\ session.presses < MaxPresses
    /\ \E plan \in {PlanOf(Loaded)} :
          \E remove_day \in Range(DaysOf(plan)) :
              \E to_remove \in Range(LecturesOn(plan, remove_day)) :
                  Saved(RemoveHandler(Loaded, remove_day, to_remove),
                                session.removed \cup {to_remove},
                                Forget(session.added, to_remove), session.presses + 1)
    /\ checklistIdle

\* "Save All Progress": the document as loaded
PressSaveAll ==
    /\ Saved(Loaded, session.removed, session.added, session.presses)
    /\ checklistIdle

\* another day picked in "Move to day" of the k-th lecture of the day shown,
\* the boxes left as they are
PickMoveToDay ==
    /\ \E plan \in {PlanOf(Loaded)} :
          \E day \in Range(DaysOf(plan)) :
              \E lectures \in {LecturesOn(plan, day)} :
                  \E k \in 1..Len(lectures) :
                      /\ session.presses < MaxPresses
                      /\ \E ticks \in {StoredTicks(Loaded, day, lectures, k)} :
                            \E rendered \in {RenderWith(Loaded, day, lectures, ticks, k)} :
                                /\ Offered(rendered, plan, day, lectures, k - 1)
                                /\ \E new_day \in Range(DaysOf(plan))
                                                  \ {CurrentAssigned(rendered, day, lectures[k])} :
                                      Saved(
                                          MoveHandler(rendered, day, lectures[k], new_day),
                                          session.removed \ {lectures[k]},
                                          Forget(session.added, lectures[k]), session.presses + 1)
    /\ checklistIdle

\* "Save Lecture" pressed for the k-th lecture of the day shown
PressSaveLecture ==
    /\ \E plan \in {PlanOf(Loaded)} :
          \E day \in Range(DaysOf(plan)) :
              \E lectures \in {LecturesOn(plan, day)} :
                  \E k \in 1..Len(lectures) :
                      \E ticks \in TickChoices(k) :
                          \E rendered \in {RenderWith(Loaded, day, lectures, ticks, k)} :
                              /\ Offered(rendered, plan, day, lectures, k)
                              /\ Saved(SaveLectureHandler(rendered, day, lectures[k],
                                                          session.now),
                                       session.removed, session.added, session.presses)
    /\ checklistIdle

\* both boxes of the k-th lecture of the day shown ticked, then its
\* "Save Lecture" pressed
CompleteLecture ==
    /\ session.presses < MaxPresses
    /\ \E plan \in {PlanOf(Loaded)} :
          \E day \in Range(DaysOf(plan)) :
              \E lectures \in {LecturesOn(plan, day)} :
                  \E k \in 1..Len(lectures) :
                      \E ticks \in {TickedAt(Loaded, day, lectures, k)} :
                          \E rendered \in {RenderWith(Loaded, day, lectures, ticks, k)} :
                              /\ Offered(rendered, plan, day, lectures, k)
                              /\ Saved(SaveLectureHandler(rendered, day, lectures[k],
                                                          session.now),
                                       session.removed, session.added, session.presses + 1)
    /\ checklistIdle

NextChecklist == PressAddLecture \/ PressRemove \/ PickMoveToDay \/ CompleteLecture

SpecChecklist == InitChecklist /\ [][NextChecklist]_vars

\* the boxes, Save Lecture and Save All Progress as the minutes pass
NextProgress == MinutePasses \/ PressSaveAll \/ PressSaveLecture

SpecProgress == InitChecklist /\ [][NextProgress]_vars


----------------------------------------------------------------------------
(* completed_on under Save Lecture, the check boxes and Save All Progress  *)

\* the lecture records of a document, as (day, lecture) pairs
RecordKeys(doc) ==
    UNION {{<<day, lecture>> : lecture \in DOMAIN doc[day]} :
           day \in DOMAIN doc \ {"overrides"}}

\* the record has a completion time
IsStamped(doc, p) == p \in RecordKeys(doc) /\ ~NotCompletedOn(doc[p[1]][p[2]])

\* C28: completed_on is written once.  From one saved document to the next,
\* under Save Lecture, the check boxes and Save All Progress, a record that
\* has a completion time keeps it unchanged, and a record gets a completion
\* time only with study and exam both set, the time being the current one.
C28_CompletedOnWrittenOnce ==
    [][\E old \in {Loaded} : \E new \in {Loaded'} :
          /\ \A p \in RecordKeys(old) :
                IsStamped(old, p) =>
                    /\ p \in RecordKeys(new)
                    /\ new[p[1]][p[2]]["completed_on"] = old[p[1]][p[2]]["completed_on"]
          /\ \A p \in RecordKeys(new) :
                (IsStamped(new, p) /\ ~IsStamped(old, p)) =>
                    /\ new[p[1]][p[2]]["study"]
                    /\ new[p[1]][p[2]]["exam"]
                    /\ new[p[1]][p[2]]["completed_on"] = Stamp(session.now)]_vars

\* a record completed in minute 0 was saved again later with a box unticked
C28_Witness ==
    /\ session.now = 1
    /\ \E p \in RecordKeys(Loaded) :
          /\ Loaded[p[1]][p[2]]["completed_on"] = Stamp(0)
          /\ ~Loaded[p[1]][p[2]]["study"]


----------------------------------------------------------------------------
(* Properties of the working plan and the statistics under edits           *)

\* the lecture is in some day of the plan
Listed(plan, lecture) == \E i \in 1..Len(plan) : InSeq(lecture, plan[i].lectures)

\* C24: a removed lecture stays removed.  On every run after a Remove of
\* lecture L, with no Add Lecture or Move to day naming L since, L is in no
\* day of the working plan.
C24_RemovedStaysRemoved ==
    \E plan \in {PlanOf(Loaded)} : \A lecture \in session.removed : ~Listed(plan, lecture)

\* C25: an added lecture shows up.  On every run after Add Lecture with name
\* L and day D, with no Remove or Move to day naming L since, L is in the
\* lectures of day D of the working plan.
C25_AddedShowsUp ==
    \E plan \in {PlanOf(Loaded)} :
        \A p \in session.added : InSeq(p[1], LecturesOn(plan, p[2]))

\* C27: the sidebar statistics are consistent.  On every run the Completed
\* count is at most Total Lectures, so Remaining is not negative.
C27_CompletedAtMostTotal ==
    \E s \in {Statistics(PlanOf(Loaded), Loaded)} : s.completed_count <= s.total_lectures

====
